---- MODULE Spec2Model ----
(***************************************************************************)
(* Verification model of the SheepIt project submitter: the asset usage    *)
(* graph (batter/asset_usage.py), the dependency sort of pack.py, the      *)
(* IncrementalPacker state machine and the pack operators of               *)
(* ops/pack_ops.py.                                                        *)
(*                                                                         *)
(* Paths are sequences of components (<<"p","lib","l1.blend">> is          *)
(* /p/lib/l1.blend, <<>> is the filesystem root).  A Python dict is a      *)
(* record [ord, map]: ord is the insertion order of the keys, map the      *)
(* key -> value function.                                                  *)
(***************************************************************************)
EXTENDS Integers, Sequences, FiniteSets, TLC

VARIABLES
    host,                \* the host document graph (bpy.data) and the filesystem facts
    au_library_abspath,  \* module attribute au.library_abspath: stack of temp-file overrides
    g,                   \* results of the functions called on the host
    dfs,                 \* pack.py main: dependency sort and the passes over to_remap
    pk,                  \* one IncrementalPacker instance
    ops                  \* the operators and the shared submit settings

vars == <<host, au_library_abspath, g, dfs, pk, ops>>

----------------------------------------------------------------------------
(* Bounds of the model *)

MaxIds == 2          \* number of entries of bpy.data.user_map()
MaxUsers == 1        \* number of users listed for one entry of the user map
MaxRefs == 1         \* number of entries of file_path_map / of the datablock collections
MaxCopies == 2       \* number of entries of the copy_map handed to the remap script
MaxRootPaths == 3    \* number of Windows paths handed to the common root computation

SeqsUpTo(S, n) == UNION {[1..k -> S] : k \in 0..n}

RECURSIVE SeqToSet(_)
SeqToSet(s) == IF s = <<>> THEN {} ELSE {Head(s)} \cup SeqToSet(Tail(s))

----------------------------------------------------------------------------
(* Libraries, reference strings and paths *)

NoneLib == "None"                 \* the key None: the currently open blend file
Libraries == {"L1", "L2", "L3"}
LibKeys == {NoneLib} \cup Libraries

BlendFilepath == <<"p", "top.blend">>      \* bpy.data.filepath

\* lib.filepath, the stored reference string of a library ("//" = relative to the open file)
LibFilepath(lib) ==
    CASE lib = "L1" -> <<"//", "lib", "l1.blend">>
      [] lib = "L3" -> <<"//", "..", "l3.blend">>
      [] OTHER -> <<"//", "l2.blend">>

RefTexTop == <<"//", "tex", "t1.png">>          \* //tex/t1.png
RefTexUp  == <<"//", "..", "tex", "t1.png">>    \* //../tex/t1.png
RefSound  == <<"//", "snd", "s1.wav">>          \* //snd/s1.wav
NoRef     == <<>>                               \* empty filepath

Parent(p) == IF p = <<>> THEN <<>> ELSE SubSeq(p, 1, Len(p) - 1)
Name(p) == IF p = <<>> THEN "" ELSE p[Len(p)]

\* Path.suffix.lower() of the file names of the model
Suffix(p) ==
    LET n == Name(p) IN
    CASE n \in {"top.blend", "l1.blend", "l2.blend", "l3.blend"} -> ".blend"
      [] n = "t1.png" -> ".png"
      [] n = "s1.wav" -> ".wav"
      [] OTHER -> ""

\* Path(...).resolve(): join the components to the base directory, folding ".."
RECURSIVE Resolve(_, _)
Resolve(base, comps) ==
    IF comps = <<>> THEN base
    ELSE IF Head(comps) = ".." THEN Resolve(Parent(base), Tail(comps))
    ELSE Resolve(Append(base, Head(comps)), Tail(comps))

\* the original library_abspath (asset_usage.py), before any override
original_library_abspath(lib) ==
    IF lib = NoneLib THEN BlendFilepath
    ELSE Resolve(Parent(BlendFilepath), Tail(LibFilepath(lib)))

\* au.library_abspath as currently bound: each override answers its temp file
\* for None and delegates every library to the function it replaced
library_abspath(lib) ==
    IF lib = NoneLib /\ au_library_abspath # <<>>
    THEN au_library_abspath[Len(au_library_abspath)]
    ELSE original_library_abspath(lib)

\* bpy.path.abspath(filepath, library=lib) followed by Path.resolve()
BpyAbspath(ref, lib) ==
    LET base == IF lib = NoneLib THEN Parent(BlendFilepath)
                ELSE Parent(original_library_abspath(lib))
    IN IF ref # <<>> /\ Head(ref) = "//" THEN Resolve(base, Tail(ref)) ELSE ref

AssetUsage(abspath, reference_path, is_blendfile) ==
    [abspath |-> abspath, reference_path |-> reference_path, is_blendfile |-> is_blendfile]

----------------------------------------------------------------------------
(* Python dict with insertion order *)

EmptyDict == [ord |-> <<>>, map |-> <<>>]
Keys(d) == DOMAIN d.map
DictSetDefault(d, k) ==
    IF k \in Keys(d) THEN d
    ELSE [ord |-> Append(d.ord, k), map |-> d.map @@ (k :> {})]
DictAdd(d, k, v) ==
    LET d1 == DictSetDefault(d, k) IN [d1 EXCEPT !.map[k] = @ \cup {v}]
DictGet(d, k) == IF k \in Keys(d) THEN d.map[k] ELSE {}

----------------------------------------------------------------------------
(* batter/asset_usage.py *)

\* about: the library the message of the exception names
Raised(kind, about) == [raised |-> kind, dict |-> EmptyDict, about |-> about]
Returned(d) == [raised |-> "no", dict |-> d, about |-> NoneLib]

\* variant of the inner loop that files every edge under the open file
RECURSIVE UsersLoopTopLevelOwner(_, _, _, _)
UsersLoopTopLevelOwner(acc, id_lib, id_users, j) ==
    IF acc.raised # "no" \/ j > Len(id_users) THEN acc
    ELSE IF id_users[j] = id_lib THEN UsersLoopTopLevelOwner(acc, id_lib, id_users, j + 1)
    ELSE IF id_lib = NoneLib THEN Raised("AttributeError", NoneLib)
    ELSE UsersLoopTopLevelOwner(
            Returned(DictAdd(acc.dict, NoneLib,
                AssetUsage(library_abspath(id_lib), LibFilepath(id_lib), TRUE))),
            id_lib, id_users, j + 1)

\* the inner loop over id_users of one entry of the user map
RECURSIVE UsersLoop(_, _, _, _)
UsersLoop(acc, id_lib, id_users, j) ==
    IF acc.raised # "no" \/ j > Len(id_users) THEN acc
    ELSE IF id_users[j] = id_lib THEN UsersLoop(acc, id_lib, id_users, j + 1)
    ELSE IF id_lib = NoneLib THEN Raised("AttributeError", NoneLib)   \* None.filepath
    ELSE UsersLoop(
            Returned(DictAdd(acc.dict, id_users[j],
                AssetUsage(library_abspath(id_lib), LibFilepath(id_lib), TRUE))),
            id_lib, id_users, j + 1)

\* variant of the outer loop that never registers the owner of an item as a key
RECURSIVE UserMapLoopNoSetdefault(_, _, _)
UserMapLoopNoSetdefault(acc, user_map, i) ==
    IF acc.raised # "no" \/ i > Len(user_map) THEN acc
    ELSE UserMapLoopNoSetdefault(
            UsersLoop(acc, user_map[i].lib, user_map[i].users, 1),
            user_map, i + 1)

\* the loop over bpy.data.user_map().items()
RECURSIVE UserMapLoop(_, _, _)
UserMapLoop(acc, user_map, i) ==
    IF acc.raised # "no" \/ i > Len(user_map) THEN acc
    ELSE UserMapLoop(
            UsersLoop(Returned(DictSetDefault(acc.dict, user_map[i].lib)),
                      user_map[i].lib, user_map[i].users, 1),
            user_map, i + 1)

find_blend_asset_usage == UserMapLoop(Returned(EmptyDict), host.user_map, 1)

\* variant of the loop over file_path_map that passes over a packed library
RECURSIVE FilePathMapLoopSkipPacked(_, _, _)
FilePathMapLoopSkipPacked(acc, fpm, i) ==
    IF acc.raised # "no" \/ i > Len(fpm) THEN acc
    ELSE LET e == fpm[i] IN
         IF e.filepaths = <<>> \/ e.is_library
            \/ (e.lib # NoneLib /\ e.lib \in host.packed_libs)
         THEN FilePathMapLoopSkipPacked(acc, fpm, i + 1)
         ELSE FilePathMapLoopSkipPacked(
                 Returned(DictAdd(acc.dict, e.lib,
                     AssetUsage(BpyAbspath(e.filepaths[1], e.lib), e.filepaths[1], FALSE))),
                 fpm, i + 1)

\* one entry of file_path_map: the paths referenced by one datablock
RECURSIVE FilepathsLoop(_, _, _, _)
FilepathsLoop(d, lib, filepaths, j) ==
    IF j > Len(filepaths) THEN d
    ELSE FilepathsLoop(
            DictAdd(d, lib, AssetUsage(BpyAbspath(filepaths[j], lib), filepaths[j], FALSE)),
            lib, filepaths, j + 1)

RECURSIVE FilePathMapLoop(_, _, _)
FilePathMapLoop(acc, fpm, i) ==
    IF acc.raised # "no" \/ i > Len(fpm) THEN acc
    ELSE LET e == fpm[i] IN
         IF e.filepaths = <<>> \/ e.is_library THEN FilePathMapLoop(acc, fpm, i + 1)
         ELSE IF e.lib # NoneLib /\ e.lib \in host.packed_libs THEN Raised("RuntimeError", e.lib)
         ELSE FilePathMapLoop(Returned(FilepathsLoop(acc.dict, e.lib, e.filepaths, 1)),
                              fpm, i + 1)

\* variant of the scans without the filter on the source of an image
RECURSIVE DatablocksLoopNoSourceFilter(_, _, _, _)
DatablocksLoopNoSourceFilter(acc, blocks, kind, i) ==
    IF acc.raised # "no" \/ i > Len(blocks) THEN acc
    ELSE LET b == blocks[i] IN
         IF b.kind # kind \/ (kind # "movieclip" /\ b.packed) \/ b.filepath = NoRef
         THEN DatablocksLoopNoSourceFilter(acc, blocks, kind, i + 1)
         ELSE IF b.lib # NoneLib /\ b.lib \in host.packed_libs
              THEN Raised("RuntimeError", b.lib)
         ELSE DatablocksLoopNoSourceFilter(
                 Returned(DictAdd(acc.dict, b.lib,
                     AssetUsage(BpyAbspath(b.filepath, b.lib), b.filepath, FALSE))),
                 blocks, kind, i + 1)

\* variant of the scans that resolves every path against the open file
RECURSIVE DatablocksLoopTopRelative(_, _, _, _)
DatablocksLoopTopRelative(acc, blocks, kind, i) ==
    IF acc.raised # "no" \/ i > Len(blocks) THEN acc
    ELSE LET b == blocks[i] IN
         IF b.kind # kind \/ (kind # "movieclip" /\ b.packed) \/ b.filepath = NoRef
            \/ (kind = "image" /\ b.source \notin {"FILE", "TILED"})
         THEN DatablocksLoopTopRelative(acc, blocks, kind, i + 1)
         ELSE IF b.lib # NoneLib /\ b.lib \in host.packed_libs THEN Raised("RuntimeError", b.lib)
         ELSE DatablocksLoopTopRelative(
                 Returned(DictAdd(acc.dict, b.lib,
                     AssetUsage(BpyAbspath(b.filepath, NoneLib), b.filepath, FALSE))),
                 blocks, kind, i + 1)

\* the scans of bpy.data.images, bpy.data.sounds and bpy.data.movieclips
RECURSIVE DatablocksLoop(_, _, _, _)
DatablocksLoop(acc, blocks, kind, i) ==
    IF acc.raised # "no" \/ i > Len(blocks) THEN acc
    ELSE LET b == blocks[i] IN
         IF b.kind # kind THEN DatablocksLoop(acc, blocks, kind, i + 1)
         ELSE IF kind # "movieclip" /\ b.packed THEN DatablocksLoop(acc, blocks, kind, i + 1)
         ELSE IF b.filepath = NoRef THEN DatablocksLoop(acc, blocks, kind, i + 1)
         ELSE IF kind = "image" /\ b.source \notin {"FILE", "TILED"}
              THEN DatablocksLoop(acc, blocks, kind, i + 1)
         ELSE IF b.lib # NoneLib /\ b.lib \in host.packed_libs THEN Raised("RuntimeError", b.lib)
         ELSE DatablocksLoop(
                 Returned(DictAdd(acc.dict, b.lib,
                     AssetUsage(BpyAbspath(b.filepath, b.lib), b.filepath, FALSE))),
                 blocks, kind, i + 1)

find_nonblend_asset_usage ==
    LET a1 == FilePathMapLoop(Returned(EmptyDict), host.file_path_map, 1)
        a2 == DatablocksLoop(a1, host.datablocks, "image", 1)
        a3 == DatablocksLoop(a2, host.datablocks, "sound", 1)
    IN DatablocksLoop(a3, host.datablocks, "movieclip", 1)

\* variant of the merge loop that assigns a key's set instead of updating it
RECURSIVE MergeLoopAssign(_, _, _)
MergeLoopAssign(merged, d, i) ==
    IF i > Len(d.ord) THEN merged
    ELSE MergeLoopAssign(
            [(DictSetDefault(merged, d.ord[i])) EXCEPT !.map[d.ord[i]] = d.map[d.ord[i]]],
            d, i + 1)

\* for key, values in d.items(): merged[key].update(values)
RECURSIVE MergeLoop(_, _, _)
MergeLoop(merged, d, i) ==
    IF i > Len(d.ord) THEN merged
    ELSE \* merged.setdefault(key, set()).update(values)
         LET d1 == DictSetDefault(merged, d.ord[i])
         IN  MergeLoop([d1 EXCEPT !.map[d.ord[i]] = @ \cup d.map[d.ord[i]]], d, i + 1)

_merge_keys(a, b) == MergeLoop(MergeLoop(EmptyDict, a, 1), b, 1)

find ==
    LET _blend_asset_usage == find_blend_asset_usage IN
    IF _blend_asset_usage.raised # "no" THEN _blend_asset_usage
    ELSE LET _nonblend_asset_usage == find_nonblend_asset_usage IN
         IF _nonblend_asset_usage.raised # "no" THEN _nonblend_asset_usage
         ELSE Returned(_merge_keys(_blend_asset_usage.dict, _nonblend_asset_usage.dict))

----------------------------------------------------------------------------
(* The host document graphs the model explores *)

UserMaps ==
    SeqsUpTo([lib : {NoneLib, "L1", "L2"}, users : SeqsUpTo({NoneLib, "L1", "L2"}, MaxUsers)],
             MaxIds)

\* scene.blend of the tests: the open file links L1 and L2, each of which links L3
DiamondHost ==
    [user_map |-> <<[lib |-> "L1", users |-> <<NoneLib>>],
                    [lib |-> "L2", users |-> <<NoneLib>>],
                    [lib |-> "L3", users |-> <<"L1", "L2">>]>>,
     file_path_map |-> <<>>, datablocks |-> <<>>, packed_libs |-> {}]

----------------------------------------------------------------------------
(* Idle values of the parts a specification does not exercise *)

NotCalled == [raised |-> "not_called", dict |-> EmptyDict, about |-> NoneLib]
GIdle == [blend |-> NotCalled, nonblend |-> NotCalled, all |-> NotCalled,
          again |-> NotCalled]
DfsIdle == [pc |-> "idle"]
PkIdle == [phase |-> "idle"]
OpsIdle == [pc |-> "idle"]

----------------------------------------------------------------------------
(* Specification SpecGraph: the asset_usage functions called on a host graph *)

InitGraph ==
    /\ LET FilePathMapEntries ==
               [lib : {NoneLib, "L1"}, is_library : {FALSE},
                filepaths : {<<RefTexTop>>, <<RefTexUp, RefSound>>}]
               \cup {[lib |-> "L1", is_library |-> TRUE, filepaths |-> <<RefTexTop>>],
                     [lib |-> "L2", is_library |-> FALSE, filepaths |-> <<RefSound>>],
                     [lib |-> NoneLib, is_library |-> FALSE, filepaths |-> <<>>]}
           DatablockEntries ==
               [kind : {"image"}, lib : {NoneLib, "L1"}, filepath : {RefTexTop},
                packed : {FALSE}, source : {"FILE", "GENERATED"}]
               \cup {[kind |-> "image", lib |-> NoneLib, filepath |-> RefTexUp,
                      packed |-> TRUE, source |-> "FILE"],
                     [kind |-> "image", lib |-> NoneLib, filepath |-> NoRef,
                      packed |-> FALSE, source |-> "FILE"],
                     [kind |-> "sound", lib |-> "L1", filepath |-> RefSound,
                      packed |-> FALSE, source |-> "FILE"],
                     [kind |-> "movieclip", lib |-> NoneLib, filepath |-> RefTexUp,
                      packed |-> FALSE, source |-> "FILE"]}
       IN  host \in [user_map : UserMaps,
                     file_path_map : SeqsUpTo(FilePathMapEntries, MaxRefs),
                     datablocks : SeqsUpTo(DatablockEntries, MaxRefs),
                     packed_libs : {{}, {"L1"}, {"L1", "L2"}}]
                    \cup {DiamondHost}
    /\ au_library_abspath = <<>>
    /\ g = GIdle
    /\ dfs = DfsIdle
    /\ pk = PkIdle
    /\ ops = OpsIdle

CallFindBlendAssetUsage ==
    /\ g' = [g EXCEPT !.blend = find_blend_asset_usage]
    /\ UNCHANGED <<host, au_library_abspath, dfs, pk, ops>>

CallFindNonblendAssetUsage ==
    /\ g' = [g EXCEPT !.nonblend = find_nonblend_asset_usage]
    /\ UNCHANGED <<host, au_library_abspath, dfs, pk, ops>>

CallFind ==
    /\ g' = [g EXCEPT !.all = find]
    /\ UNCHANGED <<host, au_library_abspath, dfs, pk, ops>>

\* a second call of find() on the same document graph
CallFindAgain ==
    /\ g.all # NotCalled
    /\ g' = [g EXCEPT !.again = find]
    /\ UNCHANGED <<host, au_library_abspath, dfs, pk, ops>>

NextGraph ==
    CallFindBlendAssetUsage \/ CallFindNonblendAssetUsage \/ CallFind \/ CallFindAgain

SpecGraph == InitGraph /\ [][NextGraph]_vars

\* the libraries an is_blendfile usage of a returned map points at
BlendTargets(d) ==
    {lib \in Libraries :
        \E k \in Keys(d) : \E u \in d.map[k] :
            /\ u.is_blendfile
            /\ u.abspath = library_abspath(lib)
            /\ u.reference_path = LibFilepath(lib)}

UserMapOwners == {host.user_map[i].lib : i \in 1..Len(host.user_map)}

\* C9: in the maps returned by find_blend_asset_usage and by find, every library
\* that an is_blendfile usage points at is a key, and so is every library (or
\* None) that owns an entry of the user map.
C9_GraphClosure ==
    /\ g.blend.raised = "no" =>
          /\ BlendTargets(g.blend.dict) \subseteq Keys(g.blend.dict)
          /\ UserMapOwners \subseteq Keys(g.blend.dict)
    /\ g.all.raised = "no" =>
          /\ BlendTargets(g.all.dict) \subseteq Keys(g.all.dict)
          /\ UserMapOwners \subseteq Keys(g.all.dict)

\* a library that is only a target (it uses nothing itself) is a key with an empty set
C9_Witness ==
    /\ g.blend.raised = "no"
    /\ g.all.raised = "no"
    /\ \E lib \in BlendTargets(g.blend.dict) :
          /\ g.blend.dict.map[lib] = {}
          /\ lib \in Keys(g.all.dict)

\* C10: find() has the keys of both maps and, per key, exactly the union of the
\* two sets (a missing side counting as the empty set).
C10_FindIsUnion ==
    (g.blend.raised = "no" /\ g.nonblend.raised = "no" /\ g.all # NotCalled) =>
        /\ g.all.raised = "no"
        /\ Keys(g.all.dict) = Keys(g.blend.dict) \cup Keys(g.nonblend.dict)
        /\ \A k \in Keys(g.all.dict) :
              g.all.dict.map[k] = DictGet(g.blend.dict, k) \cup DictGet(g.nonblend.dict, k)

\* one key holds usages from both maps, another key comes from one map only
C10_Witness ==
    /\ g.blend.raised = "no" /\ g.nonblend.raised = "no" /\ g.all.raised = "no"
    /\ \E k \in Keys(g.all.dict) :
          /\ DictGet(g.blend.dict, k) # {}
          /\ DictGet(g.nonblend.dict, k) # {}
    /\ Keys(g.blend.dict) # Keys(g.nonblend.dict)

EdgeTo(lib) == AssetUsage(library_abspath(lib), LibFilepath(lib), TRUE)

\* some item owned by library used has a user owned by user
HasUser(used, user) ==
    \E i \in 1..Len(host.user_map) :
        /\ host.user_map[i].lib = used
        /\ \E j \in 1..Len(host.user_map[i].users) : host.user_map[i].users[j] = user

\* C12: in the map returned by find_blend_asset_usage the set of key K holds the
\* edge to library L exactly when L differs from K and an item of L has a user
\* owned by K; every usage is such an edge; no key has an edge to itself; in the
\* diamond the open file has two edges and each child its one edge to the shared
\* library, which is a key with no edge.
C12_UsageEdges ==
    g.blend.raised = "no" =>
        LET d == g.blend.dict IN
        /\ \A K \in LibKeys : \A L \in Libraries :
              (EdgeTo(L) \in DictGet(d, K)) <=> (L # K /\ HasUser(L, K))
        /\ \A K \in Keys(d) : \A u \in d.map[K] : \E L \in Libraries \ {K} : u = EdgeTo(L)
        /\ host = DiamondHost =>
              /\ d.map[NoneLib] = {EdgeTo("L1"), EdgeTo("L2")}
              /\ d.map["L1"] = {EdgeTo("L3")}
              /\ d.map["L2"] = {EdgeTo("L3")}
              /\ d.map["L3"] = {}

\* find_blend_asset_usage has run on the diamond
C12_Witness ==
    /\ host = DiamondHost
    /\ g.blend.raised = "no"
    /\ Keys(g.blend.dict) = LibKeys

\* the items of the host that reference a file: an entry of the file-path map that
\* is not a library and lists a path; an image, sound or movie clip with a path,
\* without inline content, an image only if its source is FILE or TILED
FileItems ==
    {[lib |-> e.lib, filepaths |-> SeqToSet(e.filepaths)] :
        e \in {x \in SeqToSet(host.file_path_map) : ~x.is_library /\ x.filepaths # <<>>}}
    \cup
    {[lib |-> b.lib, filepaths |-> {b.filepath}] :
        b \in {x \in SeqToSet(host.datablocks) :
                  /\ x.filepath # NoRef
                  /\ x.kind = "movieclip" \/ ~x.packed
                  /\ x.kind = "image" => x.source \in {"FILE", "TILED"}}}

\* C13: the map returned by find_nonblend_asset_usage holds, under each library (or
\* None), exactly the usages is_blendfile = false of the file items that library
\* owns; no key has an empty set; images with inline content, with an empty path
\* or with a source other than FILE or TILED add nothing.
C13_NonblendMap ==
    g.nonblend.raised = "no" =>
        \A k \in LibKeys :
            /\ DictGet(g.nonblend.dict, k) =
                  UNION {{AssetUsage(BpyAbspath(f, k), f, FALSE) : f \in it.filepaths} :
                         it \in {x \in FileItems : x.lib = k}}
            /\ k \in Keys(g.nonblend.dict) => g.nonblend.dict.map[k] # {}

\* a generated image next to a listed texture: only the texture is in the map
C13_Witness ==
    /\ g.nonblend.raised = "no"
    /\ Keys(g.nonblend.dict) # {}
    /\ \E i \in 1..Len(host.datablocks) :
          /\ host.datablocks[i].kind = "image"
          /\ host.datablocks[i].source = "GENERATED"
          /\ host.datablocks[i].lib \notin Keys(g.nonblend.dict)

\* C14: when a file item is owned by a packed library, find_nonblend_asset_usage
\* raises RuntimeError naming such a library and returns no map, and it raises
\* RuntimeError in no other case; find() then returns no map either, and raises that
\* RuntimeError once find_blend_asset_usage has returned.
C14_PackedLibrary ==
    LET owners == {it.lib : it \in {x \in FileItems : x.lib \in host.packed_libs}} IN
    /\ g.nonblend # NotCalled =>
          /\ (owners # {}) <=> (g.nonblend.raised = "RuntimeError")
          /\ owners # {} => g.nonblend.about \in owners /\ g.nonblend.dict = EmptyDict
    /\ (g.all # NotCalled /\ owners # {}) =>
          /\ g.all.raised # "no"
          /\ g.all.dict = EmptyDict
          /\ find_blend_asset_usage.raised = "no" =>
                g.all.raised = "RuntimeError" /\ g.all.about \in owners

\* two packed libraries, the item of L2 is met first
C14_Witness ==
    /\ host.packed_libs = {"L1", "L2"}
    /\ g.nonblend.raised = "RuntimeError"
    /\ g.nonblend.about = "L2"
    /\ g.all.raised = "RuntimeError"
    /\ \E i \in 1..Len(host.datablocks) : host.datablocks[i].lib = "L1"

----------------------------------------------------------------------------
(* Path arithmetic shared by pack.py and ops/pack_ops.py (POSIX flavour) *)

IsPrefix(r, p) == Len(r) <= Len(p) /\ SubSeq(p, 1, Len(r)) = r

\* Path.relative_to succeeds exactly when base_root is a prefix of abs_path
RelativeTo(abs_path, base_root) == SubSeq(abs_path, Len(base_root) + 1, Len(abs_path))

\* compute_target_relpath: the plain relative path, else ROOT/<path without its anchor>
compute_target_relpath(abs_path, base_root) ==
    IF IsPrefix(base_root, abs_path) THEN RelativeTo(abs_path, base_root)
    ELSE <<"ROOT">> \o abs_path

----------------------------------------------------------------------------
(* compute_target_relpath on paths that carry their anchor, for both values of     *)
(* os.name.  A path is [anchor, parts]; a name is the sequence of its characters,  *)
(* so that the label of an anchor is put together as the code puts it together.    *)

MaxDepth == 3        \* number of names below the anchor of a path

\* variant that puts the label in front of every path
compute_target_relpath_always_label(os_name, abs_path, base_root) ==
    <<<<"R", "O", "O", "T">>>> \o abs_path.parts

\* compute_target_relpath (pack.py and ops/pack_ops.py have the same body)
compute_target_relpath_os(os_name, abs_path, base_root) ==
    LET anchor == abs_path.anchor
        label ==
            IF os_name = "nt"
            THEN IF anchor.kind = "unc"     \* "UNC_" + "_".join(parts[:2])
                 THEN <<"U", "N", "C", "_">> \o anchor.server \o <<"_">> \o anchor.share
                 ELSE IF anchor.kind = "drive"
                 THEN <<"D", "R", "I", "V", "E", "_", anchor.letter>>
                 ELSE <<"R", "O", "O", "T">>
            ELSE <<"R", "O", "O", "T">>
    IN IF abs_path.anchor = base_root.anchor /\ IsPrefix(base_root.parts, abs_path.parts)
       THEN RelativeTo(abs_path.parts, base_root.parts)
       ELSE <<label>> \o abs_path.parts

\* os.name, the base root and two files
InitPaths ==
    /\ host \in
        LET names == {<<"x">>, <<"R", "O", "O", "T">>}
            anchors(os_name) ==
                IF os_name = "nt"
                THEN [kind : {"drive"}, letter : {"C", "D"}]
                     \cup [kind : {"unc"}, server : {<<"a">>, <<"a", "_", "b">>},
                                           share : {<<"c">>, <<"b", "_", "c">>}]
                ELSE {[kind |-> "root"]}
            files(os_name) ==
                [anchor : anchors(os_name), parts : SeqsUpTo(names, MaxDepth) \ {<<>>}]
            roots(os_name) ==
                [anchor : {IF os_name = "nt" THEN [kind |-> "drive", letter |-> "C"]
                           ELSE [kind |-> "root"]},
                 parts : SeqsUpTo(names, 1)]
        IN UNION {[os_name : {o}, base_root : roots(o), p1 : files(o), p2 : files(o)] :
                  o \in {"posix", "nt"}}
    /\ au_library_abspath = <<>>
    /\ g = [called |-> FALSE, rel1 |-> <<>>, rel2 |-> <<>>]
    /\ dfs = DfsIdle
    /\ pk = PkIdle
    /\ ops = OpsIdle

CallComputeTargetRelpath ==
    /\ ~g.called
    /\ g' = [called |-> TRUE,
             rel1 |-> compute_target_relpath_os(host.os_name, host.p1, host.base_root),
             rel2 |-> compute_target_relpath_os(host.os_name, host.p2, host.base_root)]
    /\ UNCHANGED <<host, au_library_abspath, dfs, pk, ops>>

SpecPaths == InitPaths /\ [][CallComputeTargetRelpath]_vars

\* relative_to succeeds: same anchor, and the parts of the root lead the parts of the path
Under(abs_path, base_root) ==
    abs_path.anchor = base_root.anchor /\ IsPrefix(base_root.parts, abs_path.parts)

\* C15: for a path under base_root the result is the plain relative path, and
\* base_root / result is the path again.
C15_RoundTrip ==
    (g.called /\ Under(host.p1, host.base_root)) =>
        /\ Len(g.rel1) = Len(host.p1.parts) - Len(host.base_root.parts)
        /\ [anchor |-> host.base_root.anchor, parts |-> host.base_root.parts \o g.rel1]
              = host.p1

\* a file two directories below a base root that is not the anchor
C15_Witness ==
    /\ g.called
    /\ Under(host.p1, host.base_root)
    /\ host.base_root.parts # <<>>
    /\ Len(g.rel1) = 2

\* C16: two distinct paths outside base_root never get the same result.
C16_InjectiveOutside ==
    (/\ g.called
     /\ host.p1 # host.p2
     /\ ~Under(host.p1, host.base_root)
     /\ ~Under(host.p2, host.base_root)) => g.rel1 # g.rel2

\* two UNC paths outside the root whose labels come out the same
C16_Witness ==
    /\ g.called
    /\ host.p1.anchor.kind = "unc" /\ host.p2.anchor.kind = "unc"
    /\ host.p1.anchor # host.p2.anchor
    /\ g.rel1 = g.rel2

\* C17: two distinct paths, under base_root or outside it, never get the same result.
C17_InjectiveEverywhere ==
    (g.called /\ host.p1 # host.p2) => g.rel1 # g.rel2

\* a file under the root inside a directory named ROOT and a file outside the root
C17_Witness ==
    /\ g.called
    /\ host.os_name = "posix"
    /\ Under(host.p1, host.base_root)
    /\ ~Under(host.p2, host.base_root)
    /\ g.rel1 = g.rel2

----------------------------------------------------------------------------
(* AssetUsage.__eq__ and __hash__.  A Python value is [class, usage]: an AssetUsage, *)
(* or a value of another class that carries the same three fields.                 *)

\* variant of __eq__ that looks at the file only
AssetUsage__eq__abspath_only(self, value) ==
    value.class = "AssetUsage" /\ self.usage.abspath = value.usage.abspath

AssetUsage__eq__(self, value) ==
    IF value.class # "AssetUsage" THEN FALSE     \* not isinstance(value, AssetUsage)
    ELSE <<self.usage.abspath, self.usage.reference_path, self.usage.is_blendfile>>
           = <<value.usage.abspath, value.usage.reference_path, value.usage.is_blendfile>>

\* hash((abspath, reference_path, is_blendfile)): the tuple stands for its hash
AssetUsage__hash__(self) ==
    <<self.usage.abspath, self.usage.reference_path, self.usage.is_blendfile>>

\* an AssetUsage and a second value
InitEq ==
    /\ host \in [a : [class : {"AssetUsage"},
                      usage : {AssetUsage(BpyAbspath(r, NoneLib), r, b) :
                                  r \in {RefTexTop, RefTexUp, RefSound}, b \in BOOLEAN}],
                  b : [class : {"AssetUsage", "tuple"},
                      usage : {AssetUsage(BpyAbspath(r, l), r, b) :
                                  r \in {RefTexTop, RefTexUp}, l \in {NoneLib, "L1"},
                                  b \in BOOLEAN}]]
    /\ au_library_abspath = <<>>
    /\ g = [called |-> FALSE]
    /\ dfs = DfsIdle
    /\ pk = PkIdle
    /\ ops = OpsIdle

\* a == b, hash(a), hash(b), and s = set(); s.add(a); s.add(b): add keeps the new
\* value unless an element of the same hash compares equal to it
CallEq ==
    /\ ~g.called
    /\ g' = [called |-> TRUE,
             eq |-> AssetUsage__eq__(host.a, host.b),
             hash_a |-> AssetUsage__hash__(host.a),
             hash_b |-> AssetUsage__hash__(host.b),
             set |-> IF AssetUsage__hash__(host.a) = AssetUsage__hash__(host.b)
                        /\ AssetUsage__eq__(host.a, host.b)
                     THEN <<host.a>> ELSE <<host.a, host.b>>]
    /\ UNCHANGED <<host, au_library_abspath, dfs, pk, ops>>

SpecEq == InitEq /\ [][CallEq]_vars

\* C18: two AssetUsage values are equal exactly when abspath, reference_path and
\* is_blendfile all match; equal values have equal hashes; an AssetUsage never
\* equals a value of another class; a set keeps one entry for a repeat and two for
\* one file referenced through two reference strings.
C18_StructuralEquality ==
    g.called =>
        LET same == /\ host.a.usage.abspath = host.b.usage.abspath
                    /\ host.a.usage.reference_path = host.b.usage.reference_path
                    /\ host.a.usage.is_blendfile = host.b.usage.is_blendfile
        IN /\ host.b.class = "AssetUsage" => (g.eq <=> same)
           /\ host.b.class # "AssetUsage" => ~g.eq
           /\ g.eq => g.hash_a = g.hash_b
           /\ host.b.class = "AssetUsage" => Len(g.set) = IF same THEN 1 ELSE 2

\* one file, two reference strings: two entries in the set
C18_Witness ==
    /\ g.called
    /\ host.b.class = "AssetUsage"
    /\ host.a.usage.abspath = host.b.usage.abspath
    /\ host.a.usage.reference_path # host.b.usage.reference_path
    /\ host.a.usage.is_blendfile = host.b.usage.is_blendfile
    /\ ~g.eq
    /\ Len(g.set) = 2

----------------------------------------------------------------------------
(* ops/pack_ops.py: truncate_caches_to_frame_range.  A file name is a sequence of    *)
(* tokens [t, d]: the words "frame" and "cache", the characters "_" and ".", a run  *)
(* "x" of other letters, and "num", a maximal run of digits d (no two "num" tokens  *)
(* are adjacent).  A directory tree is the set of the entries [name, is_file] that  *)
(* rglob("*") yields.  unlink() is taken to succeed.                                *)

MaxTokens == 5
MaxCacheFiles == 3

truncate_caches_to_frame_range(cache_dir, frame_start, frame_end, frame_step) ==
    LET \* set(range(frame_start, frame_end + 1, frame_step)), frame_step >= 1
        valid_frames == {f \in frame_start..frame_end : (f - frame_start) % frame_step = 0}
        \* int(match.group(1))
        IntOf(d) ==
            LET val[k \in 0..Len(d)] == IF k = 0 THEN 0 ELSE 10 * val[k - 1] + d[k]
            IN  val[Len(d)]
        \* Path.stem: the name without its last suffix; a dot that starts or ends the
        \* name starts no suffix
        Stem(name) ==
            LET dots == {i \in 1..Len(name) : name[i].t = "."}
                last == IF dots = {} THEN 0 ELSE CHOOSE i \in dots : \A j \in dots : j <= i
            IN  IF 1 < last /\ last < Len(name) THEN SubSeq(name, 1, last - 1) ELSE name
        \* the position of the digits that (?:frame_|cache[^_]*_)(\d+) captures at a
        \* match that starts at token i, 0 when there is none: after "cache" the
        \* characters up to the next underscore are skipped
        Pattern1At(s, i) ==
            IF s[i].t = "frame"
            THEN IF i + 2 <= Len(s) /\ s[i + 1].t = "_" /\ s[i + 2].t = "num"
                 THEN i + 2 ELSE 0
            ELSE IF s[i].t = "cache"
            THEN LET us == {j \in (i + 1)..Len(s) : s[j].t = "_"}
                     j == IF us = {} THEN 0 ELSE CHOOSE k \in us : \A l \in us : k <= l
                 IN  IF j # 0 /\ j + 1 <= Len(s) /\ s[j + 1].t = "num" THEN j + 1 ELSE 0
            ELSE 0
        \* frame_num of a stem, -1 for None: re.search takes the leftmost match of
        \* pattern 1, and pattern 2, (\d+)$, only when pattern 1 matches nowhere
        FrameNum(s) ==
            LET starts == {i \in 1..Len(s) : Pattern1At(s, i) # 0}
            IN  IF starts # {}
                THEN IntOf(s[Pattern1At(s, CHOOSE i \in starts : \A k \in starts : i <= k)].d)
                ELSE IF s[Len(s)].t = "num" THEN IntOf(s[Len(s)].d)
                ELSE -1
        removed == {f \in cache_dir :
                       /\ f.is_file
                       /\ FrameNum(Stem(f.name)) # -1
                       /\ FrameNum(Stem(f.name)) \notin valid_frames}
    IN  [files_removed |-> Cardinality(removed), remaining |-> cache_dir \ removed]

\* the example directory (frame_0010.ext, frame_0015.ext, frame_0020.ext, notes.txt,
\* frame_0008.ext, frame_0022.ext and two directories whose names carry a number)
\* with one more file, and a frame range
InitTruncate ==
    /\ LET Word(t) == [t |-> t, d |-> <<>>]
           Num(d) == [t |-> "num", d |-> d]
           Tokens == {Word("frame"), Word("cache"), Word("_"), Word("."), Word("x"),
                      Num(<<8>>), Num(<<1, 5>>), Num(<<0, 2, 2>>)}
           Names == {n \in SeqsUpTo(Tokens, MaxTokens) :
                        /\ Len(n) >= 1
                        /\ \A i \in 1..(Len(n) - 1) : ~(n[i].t = "num" /\ n[i + 1].t = "num")}
           Example ==
               {[name |-> <<Word("frame"), Word("_"), Num(d), Word("."), Word("x")>>,
                 is_file |-> TRUE] :
                   d \in {<<0, 0, 1, 0>>, <<0, 0, 1, 5>>, <<0, 0, 2, 0>>, <<0, 0, 0, 8>>,
                          <<0, 0, 2, 2>>}}
               \cup {[name |-> <<Word("x"), Word("."), Word("x")>>, is_file |-> TRUE],
                     [name |-> <<Word("frame"), Word("_"), Num(<<8>>)>>, is_file |-> FALSE],
                     [name |-> <<Word("x"), Num(<<2, 2>>)>>, is_file |-> FALSE]}
       IN  host \in [cache_dir : {Example \cup {[name |-> n, is_file |-> TRUE]} : n \in Names},
                     range : {<<10, 20, 5>>, <<8, 22, 14>>, <<20, 10, 1>>}]
    /\ au_library_abspath = <<>>
    /\ g = [called |-> FALSE]
    /\ dfs = DfsIdle
    /\ pk = PkIdle
    /\ ops = OpsIdle

CallTruncate ==
    /\ ~g.called
    /\ g' = [called |-> TRUE,
             result |-> truncate_caches_to_frame_range(host.cache_dir, host.range[1],
                                                       host.range[2], host.range[3])]
    /\ UNCHANGED <<host, au_library_abspath, dfs, pk, ops>>

SpecTruncate == InitTruncate /\ [][CallTruncate]_vars

\* C25: a file is removed exactly when its name carries a frame number, the integer
\* that follows frame_ or cache_ or else the integer that ends the stem, and that
\* number is not one of frame_start, frame_start + frame_step, ... up to frame_end;
\* directories stay, files without a number stay, the count is the number of files
\* removed, and of the example 10, 15, 20 and notes.txt stay and 8 and 22 go.
C25_TruncationPredicate ==
    g.called =>
        LET start == host.range[1]
            end == host.range[2]
            step == host.range[3]
            Value(d) == IF Len(d) = 1 THEN d[1]
                        ELSE IF Len(d) = 2 THEN 10 * d[1] + d[2]
                        ELSE IF Len(d) = 3 THEN 100 * d[1] + 10 * d[2] + d[3]
                        ELSE 1000 * d[1] + 100 * d[2] + 10 * d[3] + d[4]
            StemOf(n) ==
                IF \E i \in 2..(Len(n) - 1) : n[i].t = "." /\ \A j \in (i + 1)..Len(n) : n[j].t # "."
                THEN SubSeq(n, 1, (CHOOSE i \in 2..(Len(n) - 1) :
                                     n[i].t = "." /\ \A j \in (i + 1)..Len(n) : n[j].t # ".") - 1)
                ELSE n
            Prefixed(s) == {i \in 3..Len(s) : /\ s[i].t = "num"
                                              /\ s[i - 1].t = "_"
                                              /\ s[i - 2].t \in {"frame", "cache"}}
            HasNumber(s) == Prefixed(s) # {} \/ s[Len(s)].t = "num"
            Number(s) == IF Prefixed(s) # {}
                         THEN Value(s[CHOOSE i \in Prefixed(s) : \A k \in Prefixed(s) : i <= k].d)
                         ELSE Value(s[Len(s)].d)
            InRange(n) == \E k \in 0..end : n = start + k * step /\ n <= end
            Word(t) == [t |-> t, d |-> <<>>]
            Num(d) == [t |-> "num", d |-> d]
            gone == host.cache_dir \ g.result.remaining
            Frame(d) == [name |-> <<Word("frame"), Word("_"), Num(d), Word("."), Word("x")>>,
                         is_file |-> TRUE]
        IN  /\ g.result.remaining \subseteq host.cache_dir
            /\ \A f \in host.cache_dir :
                  f \in gone <=> /\ f.is_file
                                 /\ HasNumber(StemOf(f.name))
                                 /\ ~InRange(Number(StemOf(f.name)))
            /\ g.result.files_removed = Cardinality(gone)
            /\ host.range = <<10, 20, 5>> =>
                  /\ {Frame(<<0, 0, 1, 0>>), Frame(<<0, 0, 1, 5>>), Frame(<<0, 0, 2, 0>>),
                      [name |-> <<Word("x"), Word("."), Word("x")>>, is_file |-> TRUE]}
                        \subseteq g.result.remaining
                  /\ {Frame(<<0, 0, 0, 8>>), Frame(<<0, 0, 2, 2>>)} \cap g.result.remaining = {}

\* a file named cache<letters>_<digits><letters> was removed: no integer follows
\* cache_ or frame_ in its name and no integer ends its stem
C25_Witness ==
    /\ g.called
    /\ \E f \in host.cache_dir \ g.result.remaining :
          /\ Len(f.name) = 5
          /\ f.name[1].t = "cache"
          /\ f.name[2].t = "x"
          /\ f.name[3].t = "_"
          /\ f.name[4].t = "num"
          /\ f.name[5].t = "x"

----------------------------------------------------------------------------
(* Specification SpecCaches: copy_blend_caches with and without a frame range *)

\* copy_blend_caches for one candidate directory src_dir that exists, with every file
\* operation succeeding and robocopy exiting below 8: the entries of the copy, and
\* whether the copy is in the list returned
copy_blend_caches(os_name, src_dir, filter_by_frame, frame_start, frame_end, frame_step) ==
    LET valid_frames == {f \in frame_start..frame_end : (f - frame_start) % frame_step = 0}
        IntOf(d) ==
            LET val[k \in 0..Len(d)] == IF k = 0 THEN 0 ELSE 10 * val[k - 1] + d[k]
            IN  val[Len(d)]
        Stem(name) ==
            LET dots == {i \in 1..Len(name) : name[i].t = "."}
                last == IF dots = {} THEN 0 ELSE CHOOSE i \in dots : \A j \in dots : j <= i
            IN  IF 1 < last /\ last < Len(name) THEN SubSeq(name, 1, last - 1) ELSE name
        \* (?:frame_|cache[^_]*_)(\d+) at a match that starts at token i, 0 for none
        Pattern1At(s, i) ==
            IF s[i].t = "frame"
            THEN IF i + 2 <= Len(s) /\ s[i + 1].t = "_" /\ s[i + 2].t = "num"
                 THEN i + 2 ELSE 0
            ELSE IF s[i].t = "cache"
            THEN LET us == {j \in (i + 1)..Len(s) : s[j].t = "_"}
                     j == IF us = {} THEN 0 ELSE CHOOSE k \in us : \A l \in us : k <= l
                 IN  IF j # 0 /\ j + 1 <= Len(s) /\ s[j + 1].t = "num" THEN j + 1 ELSE 0
            ELSE 0
        FrameNum(s) ==
            LET starts == {i \in 1..Len(s) : Pattern1At(s, i) # 0}
            IN  IF starts # {}
                THEN IntOf(s[Pattern1At(s, CHOOSE i \in starts : \A k \in starts : i <= k)].d)
                ELSE IF s[Len(s)].t = "num" THEN IntOf(s[Len(s)].d)
                ELSE -1
        should_copy_file(f) ==
            \/ ~filter_by_frame
            \/ FrameNum(Stem(f.name)) = -1
            \/ FrameNum(Stem(f.name)) \in valid_frames
        \* copy_tree_filtered: every directory is made, a file is copied if
        \* should_copy_file says so
        filtered == {f \in src_dir : ~f.is_file \/ should_copy_file(f)}
        \* _dst_has_files: the copy has at least one entry (rglob yields directories too)
        _dst_has_files(dst) == dst # {}
    IN  IF ~filter_by_frame
        THEN \* shutil.copytree
             [entries |-> src_dir, copied |-> TRUE]
        ELSE IF os_name = "nt"
        THEN IF _dst_has_files(filtered)
             THEN \* truncate_caches_to_frame_range on the copy
                  LET kept == truncate_caches_to_frame_range(filtered, frame_start, frame_end,
                                                             frame_step).remaining
                  IN  [entries |-> kept, copied |-> _dst_has_files(kept)]
             ELSE \* "Python copy produced 0 files, trying robocopy": robocopy /E copies
                  \* the whole directory and the copy is kept as it is
                  [entries |-> src_dir, copied |-> _dst_has_files(src_dir)]
        ELSE [entries |-> filtered, copied |-> _dst_has_files(filtered)]

\* a cache directory of up to three of the files frame_0008.x, frame_0010.x,
\* frame_0015.x, frame_0022.x and notes.x and at most one sub-directory, an
\* operating system and a frame range
InitCaches ==
    /\ LET Word(t) == [t |-> t, d |-> <<>>]
           Num(d) == [t |-> "num", d |-> d]
           Files == {[name |-> <<Word("frame"), Word("_"), Num(d), Word("."), Word("x")>>,
                      is_file |-> TRUE] :
                        d \in {<<0, 0, 0, 8>>, <<0, 0, 1, 0>>, <<0, 0, 1, 5>>, <<0, 0, 2, 2>>}}
                    \cup {[name |-> <<Word("x"), Word("."), Word("x")>>, is_file |-> TRUE]}
           Dirs == {[name |-> <<Word("frame"), Word("_"), Num(<<8>>)>>, is_file |-> FALSE]}
       IN  host \in [os_name : {"posix", "nt"},
                     cache_dir : {fs \cup ds : fs \in {S \in SUBSET Files :
                                                           Cardinality(S) <= MaxCacheFiles},
                                               ds \in SUBSET Dirs},
                     range : {<<10, 20, 5>>, <<8, 22, 14>>, <<20, 10, 1>>}]
    /\ au_library_abspath = <<>>
    /\ g = [called |-> FALSE]
    /\ dfs = DfsIdle
    /\ pk = PkIdle
    /\ ops = OpsIdle

\* PREPARE_COPY_TOP_BLEND calls copy_blend_caches with the frame range in COPY_ONLY
\* and without it in PACK_AND_SAVE, where TRUNCATING_CACHES truncates the copy
CallCopyBlendCaches ==
    /\ ~g.called
    /\ g' = [called |-> TRUE,
             filtered |-> copy_blend_caches(host.os_name, host.cache_dir, TRUE,
                                            host.range[1], host.range[2], host.range[3]),
             unfiltered |-> copy_blend_caches(host.os_name, host.cache_dir, FALSE,
                                              host.range[1], host.range[2], host.range[3])]
    /\ UNCHANGED <<host, au_library_abspath, dfs, pk, ops>>

SpecCaches == InitCaches /\ [][CallCopyBlendCaches]_vars

\* C40: for one source directory and one frame range, the files that
\* copy_blend_caches leaves in the target when it filters by the frame range are
\* the files that are left when the directory is copied whole and
\* truncate_caches_to_frame_range is then run on the copy.
C40_FilterEqualsTruncate ==
    g.called =>
        {f \in g.filtered.entries : f.is_file}
        = {f \in truncate_caches_to_frame_range(g.unfiltered.entries, host.range[1],
                                                host.range[2], host.range[3]).remaining :
              f.is_file}

\* on Windows, a cache directory whose files are all outside the frame range was
\* copied with the frame range: the copy holds every file
C40_Witness ==
    /\ g.called
    /\ host.os_name = "nt"
    /\ host.cache_dir # {}
    /\ \A f \in host.cache_dir : f.is_file
    /\ g.filtered.entries = host.cache_dir
    /\ truncate_caches_to_frame_range(g.unfiltered.entries, host.range[1],
                                      host.range[2], host.range[3]).remaining = {}

----------------------------------------------------------------------------
(* pack.py main: dependency sort (lines 815-872) and the passes over to_remap *)

TargetDir == <<"out">>     \* cli_args.target_path / a packer's target_path

\* adjacency and nodes as the loop over blend_deps.items() builds them
MainAdjacency(blend_deps) ==
    LET srcs == {original_library_abspath(lib) : lib \in Keys(blend_deps)} IN
    [src \in srcs |->
        UNION {{use.abspath : use \in {u \in blend_deps.map[lib] : u.is_blendfile}} :
               lib \in {l \in Keys(blend_deps) : original_library_abspath(l) = src}}]

MainNodes(blend_deps) ==
    LET adj == MainAdjacency(blend_deps) IN
    DOMAIN adj \cup UNION {adj[n] : n \in DOMAIN adj}

AdjGet(adjacency, node) == IF node \in DOMAIN adjacency THEN adjacency[node] ELSE {}

\* visit(node), entry: mark the node and start the loop over its dependencies
VisitEnter(d, node) ==
    IF node \in d.visited THEN d
    ELSE [d EXCEPT !.visited = @ \cup {node},
                   !.stack = Append(@, [node |-> node, rem |-> AdjGet(d.adjacency, node)])]

\* visit(node), exit: every dependency was visited, append the node to the order
VisitExitPrepend(d) ==
    [d EXCEPT !.order = <<d.stack[Len(d.stack)].node>> \o @,
              !.stack = SubSeq(@, 1, Len(@) - 1)]

VisitExit(d) ==
    [d EXCEPT !.order = Append(@, d.stack[Len(d.stack)].node),
              !.stack = SubSeq(@, 1, Len(@) - 1)]

\* the filter of the order into the list of target blends
RECURSIVE MainToRemap(_, _, _, _)
MainToRemap(order, copied_paths, current_blend_abspath, common_root) ==
    IF order = <<>> THEN <<>>
    ELSE LET abs_path == Head(order)
             rest == MainToRemap(Tail(order), copied_paths, current_blend_abspath, common_root)
         IN IF Suffix(abs_path) # ".blend" THEN rest
            ELSE IF abs_path \notin copied_paths /\ abs_path # current_blend_abspath THEN rest
            ELSE <<TargetDir \o compute_target_relpath(abs_path, common_root)>> \o rest

MainStart ==
    /\ dfs.pc = "start"
    /\ LET r == find_blend_asset_usage IN
       IF r.raised # "no" THEN dfs' = [dfs EXCEPT !.pc = "raised"]
       ELSE \E copied \in SUBSET ({original_library_abspath(NoneLib)}
                                  \cup UNION {MainAdjacency(r.dict)[n] :
                                              n \in DOMAIN MainAdjacency(r.dict)}) :
              dfs' = [dfs EXCEPT !.pc = "sort",
                                 !.adjacency = MainAdjacency(r.dict),
                                 !.nodes = MainNodes(r.dict),
                                 !.todo = MainNodes(r.dict),
                                 !.copied_paths = copied]
    /\ UNCHANGED <<host, au_library_abspath, g, pk, ops>>

\* for node in nodes: visit(node)
MainVisitNode ==
    /\ dfs.pc = "sort" /\ dfs.stack = <<>> /\ dfs.todo # {}
    /\ \E node \in dfs.todo :
          dfs' = VisitEnter([dfs EXCEPT !.todo = @ \ {node}], node)
    /\ UNCHANGED <<host, au_library_abspath, g, pk, ops>>

\* for dep in adjacency.get(node, set()): visit(dep)
MainVisitDep ==
    /\ dfs.pc = "sort" /\ dfs.stack # <<>>
    /\ dfs.stack[Len(dfs.stack)].rem # {}
    /\ \E dep \in dfs.stack[Len(dfs.stack)].rem :
          dfs' = VisitEnter([dfs EXCEPT !.stack[Len(dfs.stack)].rem = @ \ {dep}], dep)
    /\ UNCHANGED <<host, au_library_abspath, g, pk, ops>>

MainVisitReturn ==
    /\ dfs.pc = "sort" /\ dfs.stack # <<>>
    /\ dfs.stack[Len(dfs.stack)].rem = {}
    /\ dfs' = VisitExit(dfs)
    /\ UNCHANGED <<host, au_library_abspath, g, pk, ops>>

MainFilter ==
    /\ dfs.pc = "sort" /\ dfs.stack = <<>> /\ dfs.todo = {}
    /\ dfs' = [dfs EXCEPT !.pc = "remap",
                          !.to_remap = MainToRemap(dfs.order, dfs.copied_paths,
                                                   original_library_abspath(NoneLib),
                                                   dfs.common_root)]
    /\ UNCHANGED <<host, au_library_abspath, g, pk, ops>>

\* for blend_to_fix in to_remap: remap_library_paths(...)
MainRemapPass ==
    /\ dfs.pc = "remap"
    /\ dfs' = [dfs EXCEPT !.pc = "pack_all", !.remap_log = dfs.to_remap]
    /\ UNCHANGED <<host, au_library_abspath, g, pk, ops>>

\* if not copy_only_mode: for blend_to_fix in to_remap: pack_all_in_blend(...)
MainPackAllPass ==
    /\ dfs.pc = "pack_all"
    /\ dfs' = [dfs EXCEPT !.pc = "pack_linked",
                          !.pack_all_log = IF ~dfs.copy_only_mode THEN dfs.to_remap ELSE @]
    /\ UNCHANGED <<host, au_library_abspath, g, pk, ops>>

\* if run_pack_linked: for blend_to_fix in to_remap: pack_linked_in_blend(...)
MainPackLinkedPass ==
    /\ dfs.pc = "pack_linked"
    /\ dfs' = [dfs EXCEPT !.pc = "done",
                          !.pack_linked_log = IF dfs.run_pack_linked THEN dfs.to_remap ELSE @]
    /\ UNCHANGED <<host, au_library_abspath, g, pk, ops>>

InitTopo ==
    /\ host \in [user_map : UserMaps, file_path_map : {<<>>}, datablocks : {<<>>},
                  packed_libs : {{}}]
    /\ au_library_abspath = <<>>
    /\ g = GIdle
    /\ pk = PkIdle
    /\ ops = OpsIdle
    /\ \E co \in BOOLEAN, pl \in BOOLEAN, cr \in {<<>>, <<"p">>} :
          dfs = [pc |-> "start", adjacency |-> <<>>, nodes |-> {}, todo |-> {},
                 stack |-> <<>>, visited |-> {}, order |-> <<>>, to_remap |-> <<>>,
                 copied_paths |-> {}, common_root |-> cr,
                 copy_only_mode |-> co, run_pack_linked |-> (pl /\ ~co),
                 remap_log |-> <<>>, pack_all_log |-> <<>>, pack_linked_log |-> <<>>]

NextTopo ==
    \/ MainStart \/ MainVisitNode \/ MainVisitDep \/ MainVisitReturn
    \/ MainFilter \/ MainRemapPass \/ MainPackAllPass \/ MainPackLinkedPass

SpecTopo == InitTopo /\ [][NextTopo]_vars

\* position of x in the sequence s (0 when absent)
IndexOf(s, x) == IF \E i \in 1..Len(s) : s[i] = x
                 THEN CHOOSE i \in 1..Len(s) : s[i] = x ELSE 0

\* nodes reachable from n by one or more edges (the model has at most 3 nodes)
Succ(adj, S) == UNION {AdjGet(adj, n) : n \in S}
ReachFrom(adj, n) ==
    LET r1 == Succ(adj, {n})
        r2 == r1 \cup Succ(adj, r1)
        r3 == r2 \cup Succ(adj, r2)
    IN r3 \cup Succ(adj, r3)
Acyclic(adj, nodes) == \A n \in nodes : n \notin ReachFrom(adj, n)

MainTarget(abs_path) == TargetDir \o compute_target_relpath(abs_path, dfs.common_root)

\* C2: for an acyclic graph the finished order lists every node exactly once and
\* every dependency before its dependent; to_remap keeps that relative order and
\* the remap, pack-all and pack-linked passes go through to_remap in that order.
C2_TopologicalOrder ==
    (dfs.pc \in {"remap", "pack_all", "pack_linked", "done"}
        /\ Acyclic(dfs.adjacency, dfs.nodes)) =>
        /\ Len(dfs.order) = Cardinality(dfs.nodes)
        /\ SeqToSet(dfs.order) = dfs.nodes
        /\ \A a \in dfs.nodes : \A b \in AdjGet(dfs.adjacency, a) :
              IndexOf(dfs.order, b) < IndexOf(dfs.order, a)
        /\ \A i, j \in 1..Len(dfs.to_remap) :
              i < j => \E a, b \in 1..Len(dfs.order) :
                          /\ a < b
                          /\ MainTarget(dfs.order[a]) = dfs.to_remap[i]
                          /\ MainTarget(dfs.order[b]) = dfs.to_remap[j]
        /\ \A a \in dfs.nodes : \A b \in AdjGet(dfs.adjacency, a) :
              (IndexOf(dfs.to_remap, MainTarget(a)) > 0
                  /\ IndexOf(dfs.to_remap, MainTarget(b)) > 0)
              => IndexOf(dfs.to_remap, MainTarget(b)) < IndexOf(dfs.to_remap, MainTarget(a))
        /\ dfs.pc \in {"pack_all", "pack_linked", "done"} => dfs.remap_log = dfs.to_remap
        /\ (dfs.pc \in {"pack_linked", "done"} /\ ~dfs.copy_only_mode)
              => dfs.pack_all_log = dfs.to_remap
        /\ (dfs.pc = "done" /\ dfs.run_pack_linked) => dfs.pack_linked_log = dfs.to_remap

\* a finished run over a chain top -> library -> library whose three copies are all listed
C2_Witness ==
    /\ dfs.pc = "done"
    /\ dfs.run_pack_linked
    /\ Acyclic(dfs.adjacency, dfs.nodes)
    /\ Len(dfs.to_remap) = 3
    /\ \E a, b, c \in dfs.nodes :
          b \in AdjGet(dfs.adjacency, a) /\ c \in AdjGet(dfs.adjacency, b)

----------------------------------------------------------------------------
(* ops/pack_ops.py: IncrementalPacker *)

Phases == <<"INIT", "FIND_ASSETS", "COLLECT_PATHS", "FIND_COMMON_ROOT",
            "PREPARE_COPY_TOP_BLEND", "COPY_ASSETS", "TRUNCATING_CACHES",
            "FIND_DEPENDENCIES", "ENABLE_NLA", "REMAP_PATHS", "PACK_ALL",
            "PACK_LINKED", "COMPLETE">>

NonePath == <<>>                                       \* an Optional[Path] that is None
TempBlendPath == <<"tmp", "sheepit_submit", "top.blend">>   \* save_current_blend_with_frame_range
MkdTemp == <<"tmp", "sheepit_pack">>                   \* tempfile.mkdtemp(prefix="sheepit_pack_")
CacheDirName == "blendcache_top"                       \* f"blendcache_{blendname}"

\* iteration order of a Python set: a function of the set's content
SetOrder(S) ==
    CHOOSE q \in [1..Cardinality(S) -> S] : \A i, j \in 1..Cardinality(S) : i # j => q[i] # q[j]

Min(a, b) == IF a <= b THEN a ELSE b

\* os.path.commonpath: the longest common prefix of components
RECURSIVE CommonPrefix(_, _)
CommonPrefix(a, b) ==
    IF a = <<>> \/ b = <<>> \/ Head(a) # Head(b) THEN <<>>
    ELSE <<Head(a)>> \o CommonPrefix(Tail(a), Tail(b))

RECURSIVE CommonPath(_)
CommonPath(paths) ==
    IF Len(paths) = 1 THEN paths[1] ELSE CommonPrefix(Head(paths), CommonPath(Tail(paths)))

\* the target tree: Path.exists() of a file, of a directory holding one, of the root
Exists(fs, path) == path = MkdTemp \/ \E f \in fs : IsPrefix(path, f)
IsDir(fs, path) == path = MkdTemp \/ \E f \in fs : f # path /\ IsPrefix(path, f)
\* shutil.copy2(src, dst): into dst when dst is a directory
CopyDest(fs, src, dst) == IF IsDir(fs, dst) THEN Append(dst, Name(src)) ELSE dst

\* IncrementalPacker.__init__, with the facts of the file system the run will meet
NewPacker(workflow, enable_nla, cancel_check, frame_given, temp_blend_path, missing, has_caches) ==
    [workflow |-> workflow, target_path |-> NonePath, enable_nla |-> enable_nla,
     cancel_check |-> cancel_check, frame_given |-> frame_given,
     temp_blend_path |-> temp_blend_path,
     original_blend_path |-> IF temp_blend_path # NonePath THEN BlendFilepath ELSE NonePath,
     phase |-> "INIT",
     copy_only_mode |-> (workflow = "COPY_ONLY"),
     autopack_on_save |-> (workflow # "COPY_ONLY"),
     run_pack_linked |-> (workflow # "COPY_ONLY"),
     asset_usages |-> EmptyDict, top_level_blend_abs |-> NonePath,
     all_filepaths |-> <<>>, common_root |-> NonePath,
     copied_paths |-> {}, copy_map |-> <<>>, missing_on_copy |-> <<>>,
     assets_to_copy |-> <<>>, assets_copied |-> 0,
     top_level_target_blend |-> NonePath, cache_dirs |-> <<>>,
     blend_deps |-> EmptyDict, to_remap |-> <<>>,
     nla_index |-> 0, remap_index |-> 0, pack_all_index |-> 0, pack_linked_index |-> 0,
     cache_truncate_index |-> 0, file_path |-> NonePath, oversized_files_all |-> <<>>,
     \* the world outside the object, and what the calls did to it
     missing |-> missing, has_caches |-> has_caches,
     scripts |-> "exit_zero", linked |-> <<>>,
     fs |-> {}, copy_log |-> <<>>, truncate_log |-> <<>>, script_log |-> <<>>,
     pack_linked_log |-> <<>>,
     outcome |-> "none", complete |-> FALSE, phase_log |-> <<"INIT">>, copy_calls |-> 0,
     progress |-> <<>>]

Return(p, is_complete) == [p EXCEPT !.outcome = "returned", !.complete = is_complete]
Raise(p, kind) == [p EXCEPT !.outcome = kind]

PhaseInit(p) ==
    Return([p EXCEPT !.target_path = IF @ = NonePath THEN MkdTemp ELSE @,
                     !.phase = "FIND_ASSETS"], FALSE)

PhaseFindAssets(p) ==
    LET r == find IN
    IF r.raised # "no" THEN Raise(p, r.raised)
    ELSE Return([p EXCEPT !.asset_usages = r.dict,
                          !.top_level_blend_abs = library_abspath(NoneLib),
                          !.phase = "COLLECT_PATHS"], FALSE)

RECURSIVE KeyPaths(_, _)
KeyPaths(d, i) ==
    IF i > Len(d.ord) THEN <<>> ELSE <<library_abspath(d.ord[i])>> \o KeyPaths(d, i + 1)

RECURSIVE UsagePaths(_, _)
UsagePaths(d, i) ==
    IF i > Len(d.ord) THEN <<>>
    ELSE LET q == SetOrder(d.map[d.ord[i]]) IN
         [j \in 1..Len(q) |-> q[j].abspath] \o UsagePaths(d, i + 1)

PhaseCollectPaths(p) ==
    LET all == KeyPaths(p.asset_usages, 1) \o UsagePaths(p.asset_usages, 1)
        kept == IF p.temp_blend_path # NonePath
                THEN SelectSeq(all, LAMBDA x : x # p.temp_blend_path) ELSE all
    IN Return([p EXCEPT !.all_filepaths = kept, !.phase = "FIND_COMMON_ROOT"], FALSE)

\* os.path.commonpath of paths [drive, root, parts] that are all absolute (root is the
\* separator that follows the drive, drive is "" under POSIX): ValueError for an empty
\* list and for paths of different drives
commonpath(paths) ==
    IF paths = <<>> \/ \E i \in 1..Len(paths) : paths[i].drive # paths[1].drive
    THEN [raised |-> "ValueError", drive |-> "", root |-> "", parts |-> <<>>]
    ELSE [raised |-> "no", drive |-> paths[1].drive, root |-> paths[1].root,
          parts |-> CommonPath([i \in 1..Len(paths) |-> paths[i].parts])]

\* variant that goes straight to the directory of the open file when the first
\* commonpath fails
find_common_root_no_drive_subset(all_filepaths, blend_filepath) ==
    IF commonpath(all_filepaths).raised = "no"
    THEN [x \in {"drive", "root", "parts"} |-> commonpath(all_filepaths)[x]]
    ELSE [blend_filepath EXCEPT !.parts = Parent(@)]

\* common_root_str of FIND_COMMON_ROOT: commonpath of all paths, else of the paths on
\* the drive of bpy.data.filepath, else the directory of bpy.data.filepath
find_common_root(all_filepaths, blend_filepath) ==
    LET first == commonpath(all_filepaths)
        project_filepaths == SelectSeq(all_filepaths,
                                       LAMBDA x : x.drive = blend_filepath.drive)
    IN  IF first.raised = "no" THEN [x \in {"drive", "root", "parts"} |-> first[x]]
        ELSE IF project_filepaths # <<>>
        THEN [x \in {"drive", "root", "parts"} |-> commonpath(project_filepaths)[x]]
        ELSE [blend_filepath EXCEPT !.parts = Parent(@)]

\* variant of the phase that leaves common_root unset when it falls back to the
\* directory of the open file
PhaseFindCommonRootFallbackUnset(p) ==
    Return([p EXCEPT !.common_root = IF p.all_filepaths = <<>> THEN NonePath
                                     ELSE CommonPath(p.all_filepaths),
                     !.phase = "PREPARE_COPY_TOP_BLEND"], FALSE)

\* the paths of a packer run are resolved POSIX paths; "if not common_root_str" raises
\* for the empty string, the string of a path without drive, root and parts
PhaseFindCommonRoot(p) ==
    LET common_root_str ==
            find_common_root([i \in 1..Len(p.all_filepaths) |->
                                 [drive |-> "", root |-> "/", parts |-> p.all_filepaths[i]]],
                             [drive |-> "", root |-> "/", parts |-> BlendFilepath])
    IN IF common_root_str = [drive |-> "", root |-> "", parts |-> <<>>]
       THEN Raise(p, "ValueError")
       ELSE Return([p EXCEPT !.common_root = common_root_str.parts,
                             !.phase = "PREPARE_COPY_TOP_BLEND"], FALSE)

\* the loops over asset_usages.items() that build assets_to_copy
RECURSIVE LinksLoop(_, _, _, _)
LinksLoop(acc, links, p, j) ==
    IF j > Len(links) THEN acc
    ELSE IF \/ links[j].abspath \in p.copied_paths
            \* a cache directory: it was copied with the top-level document
            \/ Name(links[j].abspath) \in {CacheDirName, "cache_fluid"}
            \/ Len(links[j].abspath) >= 2
                  /\ links[j].abspath[Len(links[j].abspath) - 1] = "bakes"
         THEN LinksLoop(acc, links, p, j + 1)
    ELSE LinksLoop(Append(acc, [asset_usage |-> links[j],
                                asset_relpath |-> compute_target_relpath(links[j].abspath,
                                                                         p.common_root)]),
                   links, p, j + 1)

RECURSIVE AssetListLoop(_, _, _)
AssetListLoop(acc, p, i) ==
    IF i > Len(p.asset_usages.ord) THEN acc
    ELSE AssetListLoop(LinksLoop(acc, SetOrder(p.asset_usages.map[p.asset_usages.ord[i]]), p, 1),
                       p, i + 1)

\* variant of the copy of the top-level file that records the copy in copied_paths
\* only
CopyTopBlendUnrecorded(p) ==
    LET current_blend_abspath == p.top_level_blend_abs
        target_path_file == Append(p.target_path, Name(current_blend_abspath))
    IN IF current_blend_abspath \in p.copied_paths THEN p
       ELSE IF current_blend_abspath \in p.missing
            THEN [p EXCEPT !.missing_on_copy = Append(@, current_blend_abspath)]
       ELSE [p EXCEPT !.fs = @ \cup {CopyDest(p.fs, current_blend_abspath, target_path_file)},
                      !.copy_log = Append(@, current_blend_abspath),
                      !.copied_paths = @ \cup {current_blend_abspath}]

\* copy of the top-level file and of its caches (copy_blend_caches)
CopyTopBlend(p) ==
    LET current_blend_abspath == p.top_level_blend_abs
        is_temp_file == p.temp_blend_path # NonePath /\ current_blend_abspath = p.temp_blend_path
        target_path_file ==
            IF is_temp_file THEN Append(p.target_path, Name(current_blend_abspath))
            ELSE p.target_path \o compute_target_relpath(current_blend_abspath, p.common_root)
        written == CopyDest(p.fs, current_blend_abspath, target_path_file)
        cache_dir == Append(Parent(target_path_file), CacheDirName)
    IN IF current_blend_abspath \in p.copied_paths THEN p
       ELSE IF current_blend_abspath \in p.missing
            THEN [p EXCEPT !.missing_on_copy = Append(@, current_blend_abspath)]
       ELSE [p EXCEPT !.fs = @ \cup {written} \cup (IF p.has_caches THEN {cache_dir} ELSE {}),
                      !.copy_log = Append(@, current_blend_abspath),
                      !.copied_paths = @ \cup {current_blend_abspath},
                      !.copy_map = IF Suffix(current_blend_abspath) = ".blend"
                                   THEN (current_blend_abspath :> target_path_file) @@ @
                                   ELSE @,
                      !.top_level_target_blend = target_path_file,
                      !.cache_dirs = IF p.has_caches THEN Append(@, cache_dir) ELSE @]

PhasePrepareCopyTopBlend(p) ==
    LET p1 == CopyTopBlend(p) IN
    Return([p1 EXCEPT !.assets_to_copy = AssetListLoop(p1.assets_to_copy, p1, 1),
                      !.assets_copied = 0,
                      !.phase = "COPY_ASSETS"], FALSE)

\* variant of the loop body that records a missing source as copied
CopyAssetMissingCopied(p, i) ==
    LET asset_usage == p.assets_to_copy[i].asset_usage
    IN [p EXCEPT !.copied_paths = @ \cup {asset_usage.abspath},
                 !.missing_on_copy = IF asset_usage.abspath \in p.missing
                                     THEN Append(@, asset_usage.abspath) ELSE @]

\* variant of the loop body that writes the copy_map entry before it looks whether
\* the source exists
CopyAssetKeyFirst(p, i) ==
    LET asset_usage == p.assets_to_copy[i].asset_usage
        target_asset_path == p.target_path \o p.assets_to_copy[i].asset_relpath
        p1 == [p EXCEPT !.copy_map = (asset_usage.abspath :> target_asset_path) @@ @]
    IN IF asset_usage.abspath \in p.missing
       THEN [p1 EXCEPT !.missing_on_copy = Append(@, asset_usage.abspath)]
       ELSE [p1 EXCEPT !.fs = @ \cup {CopyDest(p.fs, asset_usage.abspath, target_asset_path)},
                       !.copy_log = Append(@, asset_usage.abspath),
                       !.copied_paths = @ \cup {asset_usage.abspath}]

\* one iteration of the COPY_ASSETS loop (i counts from 1)
CopyAsset(p, i) ==
    LET asset_usage == p.assets_to_copy[i].asset_usage
        target_asset_path == p.target_path \o p.assets_to_copy[i].asset_relpath
    IN IF asset_usage.abspath \in p.missing
       THEN [p EXCEPT !.missing_on_copy = Append(@, asset_usage.abspath)]
       ELSE [p EXCEPT !.fs = @ \cup {CopyDest(p.fs, asset_usage.abspath, target_asset_path)},
                      !.copy_log = Append(@, asset_usage.abspath),
                      !.copied_paths = @ \cup {asset_usage.abspath},
                      !.copy_map = IF Suffix(asset_usage.abspath) \in
                                         {".blend", ".png", ".jpg", ".jpeg", ".tga", ".tiff",
                                          ".exr", ".hdr", ".bmp", ".dds", ".mp4", ".avi", ".mov"}
                                   THEN (asset_usage.abspath :> target_asset_path) @@ @
                                   ELSE @]

\* for i in range(first, batch_end), with i counted from 0 as in the code
RECURSIVE CopyLoop(_, _, _)
CopyLoop(p, i, batch_end) ==
    IF i >= batch_end THEN p ELSE CopyLoop(CopyAsset(p, i + 1), i + 1, batch_end)

\* variant of the transition out of COPY_ASSETS that jumps over FIND_DEPENDENCIES
AfterCopyPhaseSkipDeps(p) ==
    IF p.frame_given /\ p.cache_dirs # <<>> /\ ~(p.copy_only_mode /\ p.frame_given)
    THEN "TRUNCATING_CACHES" ELSE "REMAP_PATHS"

\* where COPY_ASSETS goes once every asset was handled
AfterCopyPhase(p) ==
    LET caches_filtered_during_copy == p.copy_only_mode /\ p.frame_given IN
    IF p.frame_given /\ p.cache_dirs # <<>> /\ ~caches_filtered_during_copy
    THEN "TRUNCATING_CACHES" ELSE "FIND_DEPENDENCIES"

\* variant of COPY_ASSETS whose loop starts one entry after the cursor
PhaseCopyAssetsSkipFirst(p, batch_size) ==
    LET total_assets == Len(p.assets_to_copy)
        batch_end == Min(p.assets_copied + batch_size, total_assets)
        p1 == [CopyLoop(p, p.assets_copied + 1, batch_end) EXCEPT !.assets_copied = batch_end]
    IN IF p1.assets_copied >= total_assets
       THEN Return([p1 EXCEPT !.cache_truncate_index = 0, !.phase = AfterCopyPhase(p1)], FALSE)
       ELSE Return(p1, FALSE)

PhaseCopyAssets(p, batch_size) ==
    LET total_assets == Len(p.assets_to_copy)
        batch_end == Min(p.assets_copied + batch_size, total_assets)
        p1 == [CopyLoop(p, p.assets_copied, batch_end) EXCEPT !.assets_copied = batch_end]
    IN IF p1.assets_copied >= total_assets
       THEN Return([p1 EXCEPT !.cache_truncate_index =
                                  IF AfterCopyPhase(p1) = "TRUNCATING_CACHES" THEN 0 ELSE @,
                              !.phase = AfterCopyPhase(p1)], FALSE)
       ELSE Return(p1, FALSE)

PhaseTruncatingCaches(p) ==
    IF p.cache_truncate_index < Len(p.cache_dirs)
    THEN LET cache_dir == p.cache_dirs[p.cache_truncate_index + 1] IN
         Return([p EXCEPT !.truncate_log = IF Exists(p.fs, cache_dir)
                                           THEN Append(@, cache_dir) ELSE @,
                          !.cache_truncate_index = @ + 1], FALSE)
    ELSE Return([p EXCEPT !.phase = "FIND_DEPENDENCIES"], FALSE)

\* for lib in self.blend_deps.keys(): the copies that exist under the target
RECURSIVE DependentBlends(_, _, _)
DependentBlends(p, blend_deps, i) ==
    IF i > Len(blend_deps.ord) THEN <<>>
    ELSE LET abs_path == library_abspath(blend_deps.ord[i])
             target_blend == p.target_path \o compute_target_relpath(abs_path, p.common_root)
             rest == DependentBlends(p, blend_deps, i + 1)
         IN IF Suffix(abs_path) # ".blend" THEN rest
            ELSE IF Exists(p.fs, target_blend) THEN <<target_blend>> \o rest
            ELSE rest

PhaseFindDependencies(p) ==
    LET r == find_blend_asset_usage IN
    IF r.raised # "no" THEN Raise(p, r.raised)
    ELSE LET top == IF p.top_level_target_blend # NonePath
                        /\ Exists(p.fs, p.top_level_target_blend)
                    THEN <<p.top_level_target_blend>> ELSE <<>>
         IN Return([p EXCEPT !.blend_deps = r.dict,
                             !.to_remap = top \o DependentBlends(p, r.dict, 1),
                             !.nla_index = 0,
                             !.phase = IF p.enable_nla THEN "ENABLE_NLA" ELSE "REMAP_PATHS"],
                   FALSE)

\* variant of _run_blender_script without the final "except Exception"
run_blender_script_timeout_only(result) ==
    CASE result = "exit_zero" -> [raised |-> "no", returncode |-> 0]
      [] result = "exit_nonzero" -> [raised |-> "no", returncode |-> 1]
      [] result = "timeout" -> [raised |-> "no", returncode |-> -1]
      [] OTHER -> [raised |-> "OSError", returncode |-> 0]

\* _run_blender_script, by what subprocess.run did: the host exited (check=False, so
\* any exit code is returned), subprocess.TimeoutExpired or another exception
\* (the program could not be started)
run_blender_script(result) ==
    CASE result = "exit_zero" -> [raised |-> "no", returncode |-> 0]
      [] result = "exit_nonzero" -> [raised |-> "no", returncode |-> 1]
      [] result = "timeout" -> [raised |-> "no", returncode |-> -1]
      [] OTHER -> [raised |-> "no", returncode |-> -1]

\* variant of a script step that runs the host a second time on the same document
RunScriptTwice(p, op, blend_to_fix) ==
    IF Exists(p.fs, blend_to_fix)
    THEN LET r == run_blender_script(p.scripts)
             e == [op |-> op, blend |-> blend_to_fix, returncode |-> r.returncode]
         IN [p EXCEPT !.script_log = @ \o <<e, e>>]
    ELSE p

\* a host script run on one copied document: enable_nla_in_blend, remap_library_paths,
\* pack_all_in_blend or pack_linked_in_blend; an exception leaving the helper leaves
\* the call
RunScript(p, op, blend_to_fix) ==
    IF Exists(p.fs, blend_to_fix)
    THEN LET r == run_blender_script(p.scripts)
         IN IF r.raised # "no" THEN Raise(p, r.raised)
            ELSE [p EXCEPT !.script_log =
                      Append(@, [op |-> op, blend |-> blend_to_fix,
                                 returncode |-> r.returncode])]
    ELSE p

\* variant of the end of a script step that leaves the cursor where it was
ScriptStepDoneCursorKept(p, q, moved) ==
    IF q.outcome \in {"OSError", "TimeoutExpired"} THEN q ELSE Return(q, FALSE)

\* the end of a script phase's step: the cursor moves on unless the step raised
ScriptStepDone(p, q, moved) ==
    IF q.outcome \in {"OSError", "TimeoutExpired"} THEN q ELSE Return(moved, FALSE)

PhaseEnableNla(p) ==
    IF p.nla_index < Len(p.to_remap)
    THEN LET q == RunScript(p, "enable_nla", p.to_remap[p.nla_index + 1])
         IN ScriptStepDone(p, q, [q EXCEPT !.nla_index = @ + 1])
    ELSE Return([p EXCEPT !.remap_index = 0, !.phase = "REMAP_PATHS"], FALSE)

\* variant of REMAP_PATHS that goes on to PACK_ALL in both workflows
PhaseRemapPathsAlwaysPack(p) ==
    IF p.remap_index < Len(p.to_remap)
    THEN LET q == RunScript(p, "remap", p.to_remap[p.remap_index + 1])
         IN ScriptStepDone(p, q, [q EXCEPT !.remap_index = @ + 1])
    ELSE Return([p EXCEPT !.pack_all_index = 0, !.phase = "PACK_ALL"], FALSE)

PhaseRemapPaths(p) ==
    IF p.remap_index < Len(p.to_remap)
    THEN LET q == RunScript(p, "remap", p.to_remap[p.remap_index + 1])
         IN ScriptStepDone(p, q, [q EXCEPT !.remap_index = @ + 1])
    ELSE IF ~p.copy_only_mode
         THEN Return([p EXCEPT !.pack_all_index = 0, !.phase = "PACK_ALL"], FALSE)
         ELSE Return([p EXCEPT !.phase = "COMPLETE"], FALSE)

PhasePackAll(p) ==
    IF p.pack_all_index < Len(p.to_remap)
    THEN LET q == RunScript(p, "pack_all", p.to_remap[p.pack_all_index + 1])
         IN ScriptStepDone(p, q, [q EXCEPT !.pack_all_index = @ + 1])
    ELSE IF p.run_pack_linked
         THEN Return([p EXCEPT !.pack_linked_index = 0, !.phase = "PACK_LINKED"], FALSE)
         ELSE Return([p EXCEPT !.phase = "COMPLETE"], FALSE)

GiB == 1073741824    \* 1024 * 1024 * 1024 bytes

\* variant of the script that takes a library of exactly MAX_PACKABLE_SIZE for
\* oversized
pack_linked_in_blend_at_limit(result, linked) ==
    LET ran == result = "exit_zero"
        over == {i \in 1..Len(linked) : linked[i].exists /\ linked[i].size.gib >= 2}
        gone == {i \in 1..Len(linked) : ~linked[i].exists}
        Paths(idx) == LET sel == SelectSeq([i \in 1..Len(linked) |-> i], LAMBDA i : i \in idx)
                      IN  [k \in 1..Len(sel) |-> linked[sel[k]].path]
    IN  [missing_files |-> IF ran THEN Paths(gone) ELSE <<>>,
         oversized_files |-> IF ran THEN Paths(over) ELSE <<>>]

\* pack_linked_in_blend: the MISSING_FILE: and OVERSIZED_FILE: lines that the script
\* prints at its end, read back from stdout.  linked is bpy.data.libraries of the
\* document as [path, exists, size], a size being [gib, rem] with rem < GiB; the
\* lines are there when the script ran to its end ("exit_zero"); the host prints
\* none of the warnings that the later patterns look for
pack_linked_in_blend(result, linked) ==
    LET ran == result = "exit_zero"
        \* 2 * 1024 * 1024 * 1024, as whole GiB and remaining bytes
        MAX_PACKABLE_SIZE == [gib |-> 2, rem |-> 0]
        \* file_size > MAX_PACKABLE_SIZE
        Greater(a, b) == a.gib > b.gib \/ (a.gib = b.gib /\ a.rem > b.rem)
        over == {i \in 1..Len(linked) :
                    linked[i].exists /\ Greater(linked[i].size, MAX_PACKABLE_SIZE)}
        gone == {i \in 1..Len(linked) : ~linked[i].exists}
        Paths(idx) == LET sel == SelectSeq([i \in 1..Len(linked) |-> i], LAMBDA i : i \in idx)
                      IN  [k \in 1..Len(sel) |-> linked[sel[k]].path]
    IN  [missing_files |-> IF ran THEN Paths(gone) ELSE <<>>,
         oversized_files |-> IF ran THEN Paths(over) ELSE <<>>]

PhasePackLinked(p) ==
    IF p.pack_linked_index < Len(p.to_remap)
    THEN LET blend_to_fix == p.to_remap[p.pack_linked_index + 1]
             q == RunScript(p, "pack_linked", blend_to_fix)
             r == pack_linked_in_blend(p.scripts, p.linked)
         IN \* try: pack_linked_in_blend(...) except Exception: go on with the next file
            IF q.outcome \in {"OSError", "TimeoutExpired"}
            THEN Return([p EXCEPT !.pack_linked_index = @ + 1], FALSE)
            ELSE IF ~Exists(p.fs, blend_to_fix)
            THEN Return([q EXCEPT !.pack_linked_index = @ + 1], FALSE)
            ELSE Return([q EXCEPT !.oversized_files_all = @ \o r.oversized_files,
                                  !.pack_linked_log =
                                      Append(@, [blend |-> blend_to_fix,
                                                 missing_files |-> r.missing_files,
                                                 oversized_files |-> r.oversized_files]),
                                  !.pack_linked_index = @ + 1], FALSE)
    ELSE Return([p EXCEPT !.phase = "COMPLETE"], FALSE)

\* list(self.target_path.rglob("*.blend"))[0]: the listing is a function of the tree
FirstBlend(fs) ==
    LET blend_files == {f \in fs : Suffix(f) = ".blend"} IN
    IF blend_files = {} THEN NonePath ELSE SetOrder(blend_files)[1]

PhaseComplete(p) ==
    LET file_path ==
            IF p.copy_only_mode THEN NonePath
            ELSE IF p.top_level_target_blend # NonePath
                    /\ Exists(p.fs, p.top_level_target_blend)
                 THEN p.top_level_target_blend
            ELSE IF FirstBlend(p.fs) # NonePath THEN FirstBlend(p.fs)
            ELSE p.file_path
    IN Return([p EXCEPT !.file_path = file_path], TRUE)

\* the body of process_batch after the cancellation check
PhaseDispatch(p, batch_size) ==
    CASE p.phase = "INIT" -> PhaseInit(p)
      [] p.phase = "FIND_ASSETS" -> PhaseFindAssets(p)
      [] p.phase = "COLLECT_PATHS" -> PhaseCollectPaths(p)
      [] p.phase = "FIND_COMMON_ROOT" -> PhaseFindCommonRoot(p)
      [] p.phase = "PREPARE_COPY_TOP_BLEND" -> PhasePrepareCopyTopBlend(p)
      [] p.phase = "COPY_ASSETS" -> PhaseCopyAssets(p, batch_size)
      [] p.phase = "TRUNCATING_CACHES" -> PhaseTruncatingCaches(p)
      [] p.phase = "FIND_DEPENDENCIES" -> PhaseFindDependencies(p)
      [] p.phase = "ENABLE_NLA" -> PhaseEnableNla(p)
      [] p.phase = "REMAP_PATHS" -> PhaseRemapPaths(p)
      [] p.phase = "PACK_ALL" -> PhasePackAll(p)
      [] p.phase = "PACK_LINKED" -> PhasePackLinked(p)
      [] p.phase = "COMPLETE" -> PhaseComplete(p)
      [] OTHER -> Return(p, FALSE)

\* bookkeeping of the run: the phases entered, the number of COPY_ASSETS calls and
\* the percentages passed to progress_callback
Logged(p, q) ==
    LET \* base + (k / n * span), in thousandths of a percent (span in thousandths)
        Pct(base, k, n, span) == base * 1000 + (k * span) \div n
        \* a phase that handles one entry of a work-list per call: the report of its
        \* first call, then the report for the entry if the entry exists
        Step(base, span, index, list) ==
            (IF index = 0 THEN <<Pct(base, 0, 1, 0)>> ELSE <<>>)
            \o (IF index < Len(list) /\ Exists(p.fs, list[index + 1])
                THEN <<Pct(base, index + 1, Len(list), span)>> ELSE <<>>)
        \* the percentages that the call passed to progress_callback, in call order
        reported ==
            CASE p.phase = "FIND_ASSETS" -> <<Pct(5, 0, 1, 0)>>
              [] p.phase = "COLLECT_PATHS" -> <<Pct(10, 0, 1, 0)>>
              [] p.phase = "PREPARE_COPY_TOP_BLEND" -> <<Pct(15, 0, 1, 0)>>
              [] p.phase = "COPY_ASSETS" ->
                    IF Len(p.assets_to_copy) > 0
                    THEN <<Pct(15, q.assets_copied, Len(p.assets_to_copy), 30000)>>
                    ELSE <<Pct(15, 0, 1, 0)>>
              [] p.phase = "TRUNCATING_CACHES" ->
                    Step(45, 500, p.cache_truncate_index, p.cache_dirs)
              [] p.phase = "FIND_DEPENDENCIES" -> <<Pct(45, 0, 1, 0)>>
              [] p.phase = "ENABLE_NLA" -> Step(50, 5000, p.nla_index, p.to_remap)
              [] p.phase = "REMAP_PATHS" -> Step(55, 10000, p.remap_index, p.to_remap)
              [] p.phase = "PACK_ALL" -> Step(65, 15000, p.pack_all_index, p.to_remap)
              [] p.phase = "PACK_LINKED" -> Step(80, 15000, p.pack_linked_index, p.to_remap)
              [] OTHER -> <<>>
    IN
    [q EXCEPT !.phase_log = IF q.phase # p.phase THEN Append(@, q.phase) ELSE @,
              !.copy_calls = IF p.phase = "COPY_ASSETS" THEN @ + 1 ELSE @,
              !.progress = @ \o reported]

\* variant of process_batch that looks at cancel_check after the phase's work
ProcessBatchLateCancel(p, batch_size, cancelled) ==
    LET q == Logged(p, PhaseDispatch(p, batch_size)) IN
    IF p.cancel_check /\ cancelled THEN Raise(q, "InterruptedError") ELSE q

\* process_batch(batch_size); cancelled is what cancel_check() answers
ProcessBatch(p, batch_size, cancelled) ==
    IF p.cancel_check /\ cancelled THEN Raise(p, "InterruptedError")
    ELSE Logged(p, PhaseDispatch(p, batch_size))

----------------------------------------------------------------------------
(* Specification SpecPacker: one IncrementalPacker driven to the end *)

BatchSizes == {1, 1000}

\* items of the open file used locally, library items used by the open file or by
\* the other library, and a local item used from a library
PackerUserMapEntries ==
    {[lib |-> NoneLib, users |-> <<NoneLib>>],
     [lib |-> "L1", users |-> <<NoneLib>>],
     [lib |-> "L1", users |-> <<"L2">>],
     [lib |-> "L2", users |-> <<NoneLib>>],
     [lib |-> "L2", users |-> <<"L1">>],
     [lib |-> NoneLib, users |-> <<"L1">>]}

TexFromTop == [kind |-> "image", lib |-> NoneLib, filepath |-> RefTexTop,
               packed |-> FALSE, source |-> "FILE"]

PackerHosts ==
    [user_map : SeqsUpTo(PackerUserMapEntries, MaxIds), file_path_map : {<<>>},
     datablocks : {<<>>, <<TexFromTop>>}, packed_libs : {{}}]
    \cup [user_map : SeqsUpTo(PackerUserMapEntries, MaxIds),
          file_path_map : {<<[lib |-> "L1", is_library |-> FALSE,
                              filepaths |-> <<RefTexUp, RefSound>>]>>},
          datablocks : {<<TexFromTop>>}, packed_libs : {{}}]

FailureOutcomes == {"AttributeError", "RuntimeError", "ValueError", "InterruptedError"}
Running(p) == ~p.complete /\ p.outcome \notin FailureOutcomes

InitPacker ==
    /\ host \in PackerHosts
    /\ au_library_abspath \in {<<>>, <<TempBlendPath>>}
    /\ g = GIdle
    /\ dfs = DfsIdle
    /\ ops = OpsIdle
    /\ \E workflow \in {"COPY_ONLY", "PACK_AND_SAVE"}, enable_nla \in BOOLEAN,
          frame_given \in BOOLEAN, has_caches \in BOOLEAN :
       \* the sources that cannot be read: none, the top-level file, a library and a
       \* texture
       \E missing \in {{}, {library_abspath(NoneLib)},
                       {original_library_abspath("L1"), <<"p", "tex", "t1.png">>}} :
          pk = NewPacker(workflow, enable_nla, TRUE, frame_given,
                         IF au_library_abspath = <<>> THEN NonePath ELSE TempBlendPath,
                         missing, has_caches)

\* one call of process_batch by a driver
Tick ==
    /\ Running(pk)
    /\ \E batch_size \in BatchSizes, cancelled \in BOOLEAN :
          pk' = ProcessBatch(pk, batch_size, cancelled)
    /\ UNCHANGED <<host, au_library_abspath, g, dfs, ops>>

\* one call of process_batch, by the phase it finds
NextPacker ==
    \/ pk.phase = "INIT" /\ Tick
    \/ pk.phase = "FIND_ASSETS" /\ Tick
    \/ pk.phase = "COLLECT_PATHS" /\ Tick
    \/ pk.phase = "FIND_COMMON_ROOT" /\ Tick
    \/ pk.phase = "PREPARE_COPY_TOP_BLEND" /\ Tick
    \/ pk.phase = "COPY_ASSETS" /\ Tick
    \/ pk.phase = "TRUNCATING_CACHES" /\ Tick
    \/ pk.phase = "FIND_DEPENDENCIES" /\ Tick
    \/ pk.phase = "ENABLE_NLA" /\ Tick
    \/ pk.phase = "REMAP_PATHS" /\ Tick
    \/ pk.phase = "PACK_ALL" /\ Tick
    \/ pk.phase = "PACK_LINKED" /\ Tick
    \/ pk.phase = "COMPLETE" /\ Tick

SpecPacker == InitPacker /\ [][NextPacker]_vars

PhaseIndex(phase) == IndexOf(Phases, phase)
SkippablePhases == {"TRUNCATING_CACHES", "ENABLE_NLA", "PACK_ALL", "PACK_LINKED"}

\* the packer as the operators construct it: temp file as source, enable_nla=False,
\* a frame range
OperatorConfigured(p) == p.temp_blend_path # NonePath /\ ~p.enable_nla /\ p.frame_given

\* where the copy of a document of the dependency map lies under the target
PackerCopyOfKey(p, lib) ==
    IF lib = NoneLib /\ p.top_level_target_blend # NonePath THEN p.top_level_target_blend
    ELSE p.target_path \o compute_target_relpath(library_abspath(lib), p.common_root)
PackerCopyOfUse(p, use) ==
    p.target_path \o compute_target_relpath(use.abspath, p.common_root)

\* the entries of script_log written by one pass, in the order they were written
PassLog(p, op) ==
    LET q == SelectSeq(p.script_log, LAMBDA e : e.op = op) IN
    [i \in 1..Len(q) |-> q[i].blend]

\* C1: in a packer constructed as the operators construct it, for every edge a -> b of
\* the dependency map found by FIND_DEPENDENCIES (acyclic graph) with the copies of a
\* and b both in to_remap, b comes before a in to_remap, and each of the remap,
\* pack-all and pack-linked passes handles b before a.
C1_LeavesBeforeRoot ==
    (PhaseIndex(pk.phase) > PhaseIndex("FIND_DEPENDENCIES") /\ OperatorConfigured(pk)
        /\ Acyclic(MainAdjacency(pk.blend_deps), MainNodes(pk.blend_deps))) =>
    \A a \in Keys(pk.blend_deps) : \A use \in pk.blend_deps.map[a] :
        LET copy_a == PackerCopyOfKey(pk, a)
            copy_b == PackerCopyOfUse(pk, use)
        IN (use.is_blendfile /\ copy_a # copy_b
                /\ Suffix(copy_a) = ".blend" /\ Suffix(copy_b) = ".blend"
                /\ IndexOf(pk.to_remap, copy_a) > 0 /\ IndexOf(pk.to_remap, copy_b) > 0) =>
           /\ IndexOf(pk.to_remap, copy_b) < IndexOf(pk.to_remap, copy_a)
           /\ \A op \in {"remap", "pack_all", "pack_linked"} :
                 IndexOf(PassLog(pk, op), copy_a) > 0 =>
                    /\ IndexOf(PassLog(pk, op), copy_b) > 0
                    /\ IndexOf(PassLog(pk, op), copy_b) < IndexOf(PassLog(pk, op), copy_a)

\* a finished pack-and-save run whose top-level copy and one library copy were both
\* handled by the pack-linked pass
C1_Witness ==
    /\ pk.complete
    /\ ~pk.copy_only_mode
    /\ Acyclic(MainAdjacency(pk.blend_deps), MainNodes(pk.blend_deps))
    /\ \E use \in DictGet(pk.blend_deps, NoneLib) :
          /\ use.is_blendfile
          /\ IndexOf(PassLog(pk, "pack_linked"), PackerCopyOfUse(pk, use)) > 0
          /\ IndexOf(PassLog(pk, "pack_linked"), PackerCopyOfKey(pk, NoneLib)) > 0
          /\ PackerCopyOfUse(pk, use) # PackerCopyOfKey(pk, NoneLib)

\* what the claims compare of two finished runs
Terminal(p) ==
    [copy_map |-> p.copy_map, copied_paths |-> p.copied_paths,
     missing_on_copy |-> p.missing_on_copy, to_remap |-> p.to_remap,
     file_path |-> p.file_path, phase |-> p.phase, complete |-> p.complete,
     failed |-> (p.outcome \in FailureOutcomes)]

\* process_batch called with one batch size, never cancelled, until the run ends
MaxCalls == 40
RECURSIVE RunToEnd(_, _, _)
RunToEnd(p, batch_size, calls) ==
    IF ~Running(p) \/ calls = 0 THEN p
    ELSE RunToEnd(ProcessBatch(p, batch_size, FALSE), batch_size, calls - 1)

PackerAtStart(p) ==
    [NewPacker(p.workflow, p.enable_nla, p.cancel_check, p.frame_given,
               p.temp_blend_path, p.missing, p.has_caches)
     EXCEPT !.scripts = p.scripts, !.linked = p.linked]

\* C3: a run that ended without cancellation, whatever batch sizes its calls used,
\* ended in the terminal state of the run with batch size 1, which is the terminal
\* state of the run with batch size 1000: same copy_map, copied_paths,
\* missing_on_copy (same order), to_remap and file_path.
C3_BatchResumability ==
    (~Running(pk) /\ pk.outcome # "InterruptedError") =>
        LET one == RunToEnd(PackerAtStart(pk), 1, MaxCalls)
            big == RunToEnd(PackerAtStart(pk), 1000, MaxCalls)
        IN /\ ~Running(one) /\ ~Running(big)
           /\ Terminal(one) = Terminal(big)
           /\ Terminal(pk) = Terminal(one)

\* a finished run that copied one asset per call, over a work-list of at least
\* three entries, one of them missing
C3_Witness ==
    /\ pk.complete
    /\ Len(pk.assets_to_copy) >= 3
    /\ pk.copy_calls = Len(pk.assets_to_copy)
    /\ pk.missing_on_copy # <<>>
    /\ pk.copy_log # <<>>

\* C19: in COPY_ASSETS an asset whose source file does not exist is appended to
\* missing_on_copy, is not copied, enters neither copied_paths nor copy_map, and
\* the cursor moves past it; the call of process_batch does not raise and the run,
\* called on without cancellation, reaches COMPLETE with the asset still recorded
\* as missing.
C19_MissingSource ==
    LET \* the sources of assets_to_copy[1..assets_copied] that do not exist
        MissingHandled(p) ==
            {p.assets_to_copy[i].asset_usage.abspath : i \in
                {j \in 1..p.assets_copied :
                    p.assets_to_copy[j].asset_usage.abspath \in p.missing}}
    IN  /\ \A a \in MissingHandled(pk) :
              /\ IndexOf(pk.missing_on_copy, a) > 0
              /\ IndexOf(pk.copy_log, a) = 0
              /\ a \notin pk.copied_paths
              /\ a \notin DOMAIN pk.copy_map
        /\ (pk.phase = "COPY_ASSETS" /\ Running(pk)) =>
              \A batch_size \in BatchSizes :
                 LET q == ProcessBatch(pk, batch_size, FALSE)
                     batch_end == IF pk.assets_copied + batch_size < Len(pk.assets_to_copy)
                                  THEN pk.assets_copied + batch_size
                                  ELSE Len(pk.assets_to_copy)
                     end == RunToEnd(pk, batch_size, MaxCalls)
                 IN /\ q.outcome \notin FailureOutcomes
                    /\ q.assets_copied = batch_end
                    /\ q.phase = "COPY_ASSETS" <=> batch_end < Len(pk.assets_to_copy)
                    /\ end.complete /\ end.phase = "COMPLETE"
                    /\ MissingHandled(q) \subseteq MissingHandled(end)

\* a finished run whose work-list held a missing source followed by a source that
\* was copied
C19_Witness ==
    /\ pk.complete /\ pk.phase = "COMPLETE"
    /\ \E i, j \in 1..Len(pk.assets_to_copy) :
          /\ i < j
          /\ pk.assets_to_copy[i].asset_usage.abspath \in pk.missing
          /\ IndexOf(pk.missing_on_copy, pk.assets_to_copy[i].asset_usage.abspath) > 0
          /\ IndexOf(pk.copy_log, pk.assets_to_copy[j].asset_usage.abspath) > 0

\* C22: when the packer has reached COMPLETE, file_path is None in copy-only mode;
\* in pack-and-save mode it is the copy of the top-level document when that copy
\* exists, otherwise the first .blend file found under the target root, otherwise
\* None; and target_path is a directory.
C22_CompletionOutput ==
    pk.complete =>
        /\ pk.phase = "COMPLETE"
        /\ pk.target_path # NonePath /\ IsDir(pk.fs, pk.target_path)
        /\ pk.copy_only_mode => pk.file_path = NonePath
        /\ ~pk.copy_only_mode =>
              LET blend_files == {f \in pk.fs : Suffix(f) = ".blend"}
                  top_copied == pk.top_level_blend_abs \in pk.copied_paths
              IN IF top_copied
                 THEN /\ pk.file_path \in blend_files
                      /\ Name(pk.file_path) = Name(pk.top_level_blend_abs)
                 ELSE IF blend_files # {} THEN pk.file_path \in blend_files
                 ELSE pk.file_path = NonePath

\* a finished pack-and-save run that copied the top-level document and whose
\* file_path is a directory
C22_Witness ==
    /\ pk.complete /\ ~pk.copy_only_mode
    /\ pk.top_level_blend_abs \in pk.copied_paths
    /\ IsDir(pk.fs, pk.file_path)

\* C23: in copy-only mode the packer never enters PACK_ALL or PACK_LINKED, runs no
\* pack script, and enters COMPLETE from REMAP_PATHS; in pack-and-save mode it
\* enters COMPLETE only after REMAP_PATHS, PACK_ALL and PACK_LINKED in that order,
\* each of the two pack phases having gone over the whole of to_remap.
C23_PackPhasesOnlyInPackAndSave ==
    LET log == pk.phase_log
        n == Len(log)
        ran(op) == SelectSeq(pk.script_log, LAMBDA e : e.op = op)
        present == SelectSeq(pk.to_remap, LAMBDA b : Exists(pk.fs, b))
    IN  /\ pk.copy_only_mode =>
              /\ IndexOf(log, "PACK_ALL") = 0 /\ IndexOf(log, "PACK_LINKED") = 0
              /\ ran("pack_all") = <<>> /\ ran("pack_linked") = <<>>
              /\ pk.phase = "COMPLETE" => log[n - 1] = "REMAP_PATHS"
        /\ (~pk.copy_only_mode /\ pk.phase = "COMPLETE") =>
              /\ SubSeq(log, n - 3, n) = <<"REMAP_PATHS", "PACK_ALL", "PACK_LINKED", "COMPLETE">>
              /\ pk.pack_all_index = Len(pk.to_remap)
              /\ pk.pack_linked_index = Len(pk.to_remap)
              /\ \A op \in {"pack_all", "pack_linked"} :
                    /\ Len(ran(op)) = Len(present)
                    /\ \A i \in 1..Len(present) : ran(op)[i].blend = present[i]

\* a finished copy-only run and nothing packed, over a work-list of two documents
C23_Witness ==
    /\ pk.complete /\ pk.copy_only_mode
    /\ Len(pk.to_remap) >= 2
    /\ Len(SelectSeq(pk.script_log, LAMBDA e : e.op = "remap")) >= 2

\* C24: a packer given frame_start, frame_end and frame_step enters
\* TRUNCATING_CACHES right after COPY_ASSETS and before FIND_DEPENDENCIES, in both
\* workflows; a packer not given them never enters TRUNCATING_CACHES.
C24_TruncatingIffFrameRange ==
    LET log == pk.phase_log
        deps == IndexOf(log, "FIND_DEPENDENCIES")
    IN  /\ ~pk.frame_given => IndexOf(log, "TRUNCATING_CACHES") = 0
        /\ (pk.frame_given /\ deps > 0) =>
              /\ log[deps - 1] = "TRUNCATING_CACHES"
              /\ log[deps - 2] = "COPY_ASSETS"

\* a copy-only run with a frame range and a cache directory that went from
\* COPY_ASSETS to FIND_DEPENDENCIES
C24_Witness ==
    /\ pk.frame_given /\ pk.copy_only_mode /\ pk.cache_dirs # <<>>
    /\ IndexOf(pk.phase_log, "FIND_DEPENDENCIES") > 0
    /\ IndexOf(pk.phase_log, "TRUNCATING_CACHES") = 0

\* C26: the call that leaves FIND_COMMON_ROOT sets common_root to the deepest prefix of
\* components that all collected paths share (each of them is under it); when they
\* share none, to that of the paths on the volume of the open file; when there are
\* none of those, to the directory of the open file.  The same holds of the
\* computation on Windows paths of two volumes.  Once set, common_root keeps its
\* value in every later call.
C26_CommonRoot ==
    [][LET Paths == [drive : {"C:", "D:"}, root : {"\\"},
                     parts : {<<"a", "x">>, <<"a", "y">>, <<"b">>}]
           Shared(S, r) == \A x \in S : x.drive = r.drive /\ IsPrefix(r.parts, x.parts)
           Deepest(S, r) ==
               /\ Shared(S, r)
               /\ \A x \in S : Len(x.parts) > Len(r.parts) =>
                      ~Shared(S, [r EXCEPT !.parts = SubSeq(x.parts, 1, Len(r.parts) + 1)])
           SameVolume(S) == \A x, y \in S : x.drive = y.drive
           OnVolume(S, blend) == {x \in S : x.drive = blend.drive}
           Claimed(S, blend, r) ==
               IF S # {} /\ SameVolume(S) THEN Deepest(S, r)
               ELSE IF OnVolume(S, blend) # {} THEN Deepest(OnVolume(S, blend), r)
               ELSE r = [blend EXCEPT !.parts = Parent(@)]
           Posix(x) == [drive |-> "", root |-> "/", parts |-> x]
       IN  /\ (pk.phase = "FIND_COMMON_ROOT" /\ pk'.phase # "FIND_COMMON_ROOT") =>
                 /\ pk'.common_root # NonePath
                 /\ Claimed({Posix(x) : x \in SeqToSet(pk.all_filepaths)}, Posix(BlendFilepath),
                            Posix(pk'.common_root))
                 /\ \A x \in SeqToSet(pk.all_filepaths) : IsPrefix(pk'.common_root, x)
                 /\ \A all \in SeqsUpTo(Paths, MaxRootPaths),
                       blend \in {[drive |-> "C:", root |-> "\\", parts |-> <<"p", "top.blend">>]} :
                        Claimed(SeqToSet(all), blend, find_common_root(all, blend))
           /\ pk.common_root # NonePath => pk'.common_root = pk.common_root
           /\ pk.phase # "FIND_COMMON_ROOT" => pk'.common_root = pk.common_root]_vars

\* the root was computed from several collected paths and copies were made under it
C26_Witness ==
    /\ pk.phase = "COPY_ASSETS"
    /\ Len(pk.all_filepaths) > 1
    /\ pk.common_root = <<"p">>
    /\ pk.copy_log # <<>>

C30_TopLevelFirst ==
    LET top == pk.top_level_blend_abs
        attempted == top \in pk.copied_paths \/ top \in SeqToSet(pk.missing_on_copy)
        dependencies == {i \in 1..Len(pk.copy_log) : pk.copy_log[i] # top}
    IN  /\ pk.phase \in {"COPY_ASSETS", "REMAP_PATHS"} =>
              /\ IndexOf(pk.phase_log, "PREPARE_COPY_TOP_BLEND") # 0
              /\ IndexOf(pk.phase_log, "PREPARE_COPY_TOP_BLEND")
                    < IndexOf(pk.phase_log, "COPY_ASSETS")
              /\ attempted
        /\ dependencies # {} =>
              /\ PhaseIndex(pk.phase) >= PhaseIndex("COPY_ASSETS")
              /\ attempted
              /\ top \in pk.copied_paths => /\ pk.copy_log[1] = top
                                            /\ 1 \notin dependencies
        /\ (/\ top \in pk.copied_paths
            /\ \/ pk.phase \in {"COPY_ASSETS", "REMAP_PATHS"}
               \/ dependencies # {}
               \/ \E i \in 1..Len(pk.script_log) : pk.script_log[i].op = "remap") =>
              /\ pk.top_level_target_blend # NonePath
              /\ top \in DOMAIN pk.copy_map

\* two documents were remapped after the top-level document and a dependency had been
\* copied
C30_Witness ==
    /\ pk.phase = "REMAP_PATHS"
    /\ pk.remap_index = 2
    /\ Len(pk.copy_log) >= 2
    /\ pk.copy_log[1] = pk.top_level_blend_abs
    /\ pk.top_level_blend_abs \in DOMAIN pk.copy_map

\* C31: every asset that COPY_ASSETS has copied is a file at target_path joined with
\* compute_target_relpath(abspath, common_root); an asset that exists is copied, also
\* when it lies outside common_root (then under the label directory), and is not
\* recorded in missing_on_copy.
C31_CopyDestination ==
    \A i \in 1..Len(pk.assets_to_copy) :
        LET abspath == pk.assets_to_copy[i].asset_usage.abspath
            dst == pk.target_path \o compute_target_relpath(abspath, pk.common_root)
        IN  (i <= pk.assets_copied /\ abspath \notin pk.missing) =>
               /\ abspath \in pk.copied_paths
               /\ abspath \notin SeqToSet(pk.missing_on_copy)
               /\ dst \in pk.fs
               /\ ~IsDir(pk.fs, dst)
               /\ ~IsPrefix(pk.common_root, abspath) => dst[Len(pk.target_path) + 1] = "ROOT"

\* the one collected path is a texture, common_root is that file, and the texture was
\* copied into the target directory under its name
C31_Witness ==
    /\ pk.assets_copied = 1
    /\ Len(pk.all_filepaths) = 1
    /\ pk.common_root = pk.assets_to_copy[1].asset_usage.abspath
    /\ pk.assets_to_copy[1].asset_usage.abspath \in pk.copied_paths
    /\ Append(pk.target_path, Name(pk.common_root)) \in pk.fs
    /\ pk.target_path \notin pk.fs

C33_CursorDiscipline ==
    LET Count(s, x) == Cardinality({i \in 1..Len(s) : s[i] = x})
        Cursor(p, phase) ==
            CASE phase = "COPY_ASSETS" -> p.assets_copied
              [] phase = "TRUNCATING_CACHES" -> p.cache_truncate_index
              [] phase = "ENABLE_NLA" -> p.nla_index
              [] phase = "REMAP_PATHS" -> p.remap_index
              [] phase = "PACK_ALL" -> p.pack_all_index
              [] phase = "PACK_LINKED" -> p.pack_linked_index
        WorkList(p, phase) ==
            CASE phase = "COPY_ASSETS" -> p.assets_to_copy
              [] phase = "TRUNCATING_CACHES" -> p.cache_dirs
              [] OTHER -> p.to_remap
        OneByOne == {"TRUNCATING_CACHES", "ENABLE_NLA", "REMAP_PATHS", "PACK_ALL",
                     "PACK_LINKED"}
        Handled(p) == Len(p.copy_log) + Len(p.missing_on_copy)
        top_handled == IF PhaseIndex(pk.phase) > PhaseIndex("PREPARE_COPY_TOP_BLEND")
                       THEN 1 ELSE 0
    IN /\ \A phase \in OneByOne \cup {"COPY_ASSETS"} :
             Cursor(pk, phase) \in 0..Len(WorkList(pk, phase))
       /\ \A batch_size \in BatchSizes :
             LET q == ProcessBatch(pk, batch_size, FALSE) IN
             Running(pk) =>
                /\ \A phase \in OneByOne \cup {"COPY_ASSETS"} :
                      /\ Cursor(q, phase) >= Cursor(pk, phase)
                      /\ phase # pk.phase => Cursor(q, phase) = Cursor(pk, phase)
                /\ pk.phase = "COPY_ASSETS" =>
                      /\ q.assets_copied - pk.assets_copied
                            = Min(batch_size, Len(pk.assets_to_copy) - pk.assets_copied)
                      /\ Handled(q) - Handled(pk) = q.assets_copied - pk.assets_copied
                      /\ q.assets_copied - pk.assets_copied <= batch_size
                /\ pk.phase \in OneByOne =>
                      Cursor(q, pk.phase) =
                         IF Cursor(pk, pk.phase) < Len(WorkList(pk, pk.phase))
                         THEN Cursor(pk, pk.phase) + 1 ELSE Cursor(pk, pk.phase)
       \* the entries before the cursor of COPY_ASSETS are the ones copied or recorded
       \* as missing, each once
       /\ Handled(pk) = pk.assets_copied + top_handled
       /\ \A i \in 1..pk.assets_copied :
             LET x == pk.assets_to_copy[i].asset_usage.abspath
                 before == [j \in 1..pk.assets_copied |->
                               pk.assets_to_copy[j].asset_usage.abspath]
                 top == IF x = pk.top_level_blend_abs THEN 1 ELSE 0
             IN Count(pk.copy_log, x) + Count(pk.missing_on_copy, x) = Count(before, x) + top
       /\ pk.truncate_log = SubSeq(pk.cache_dirs, 1, pk.cache_truncate_index)
       /\ PassLog(pk, "enable_nla") = SubSeq(pk.to_remap, 1, pk.nla_index)
       /\ PassLog(pk, "remap") = SubSeq(pk.to_remap, 1, pk.remap_index)
       /\ PassLog(pk, "pack_all") = SubSeq(pk.to_remap, 1, pk.pack_all_index)
       /\ PassLog(pk, "pack_linked") = SubSeq(pk.to_remap, 1, pk.pack_linked_index)

\* a finished run whose COPY_ASSETS phase took several calls over a work-list of at
\* least three entries, that truncated a cache directory and ran the four script
\* passes over at least two documents
C33_Witness ==
    /\ pk.complete
    /\ pk.copy_calls >= 2
    /\ pk.assets_copied >= 3
    /\ pk.cache_truncate_index >= 1
    /\ pk.nla_index >= 2
    /\ pk.pack_linked_index = pk.nla_index

\* C34: a call of process_batch runs the host at most once; it runs it only in
\* ENABLE_NLA, REMAP_PATHS, PACK_ALL and PACK_LINKED, with the script of that phase
\* and on the one document under the cursor of that phase; a call that finds
\* cancel_check true raises before it runs anything, so cancel_check is looked at
\* between any two runs of the host.
C34_OneHostCallPerBatch ==
    LET ScriptOf(phase) ==
            CASE phase = "ENABLE_NLA" -> "enable_nla"
              [] phase = "REMAP_PATHS" -> "remap"
              [] phase = "PACK_ALL" -> "pack_all"
              [] phase = "PACK_LINKED" -> "pack_linked"
              [] OTHER -> "none"
        CursorOf(p) ==
            CASE p.phase = "ENABLE_NLA" -> p.nla_index
              [] p.phase = "REMAP_PATHS" -> p.remap_index
              [] p.phase = "PACK_ALL" -> p.pack_all_index
              [] p.phase = "PACK_LINKED" -> p.pack_linked_index
              [] OTHER -> 0
    IN Running(pk) =>
          \A batch_size \in BatchSizes :
             LET q == ProcessBatch(pk, batch_size, FALSE)
                 c == ProcessBatch(pk, batch_size, TRUE)
                 n == Len(pk.script_log)
             IN /\ Len(q.script_log) \in {n, n + 1}
                /\ SubSeq(q.script_log, 1, n) = pk.script_log
                /\ Len(q.script_log) = n + 1 =>
                      /\ ScriptOf(pk.phase) # "none"
                      /\ q.script_log[n + 1].op = ScriptOf(pk.phase)
                      /\ CursorOf(pk) < Len(pk.to_remap)
                      /\ q.script_log[n + 1].blend = pk.to_remap[CursorOf(pk) + 1]
                      /\ CursorOf(q) = CursorOf(pk) + 1
                /\ pk.cancel_check =>
                      (c.outcome = "InterruptedError" /\ c.script_log = pk.script_log)

\* a run that was cancelled by the call that followed a run of the host, with the
\* next document of the pass still to be handled
C34_Witness ==
    /\ pk.outcome = "InterruptedError"
    /\ pk.phase = "REMAP_PATHS"
    /\ pk.remap_index = 1
    /\ Len(pk.to_remap) >= 2
    /\ Len(pk.script_log) >= 1
    /\ pk.script_log[Len(pk.script_log)].op = "remap"

\* C35: every key of copy_map is in copied_paths and is no source that cannot be
\* read; every value is target_path or a path below it; a path of copied_paths is
\* a key exactly when its extension is .blend or one of the image and video
\* extensions of COPY_ASSETS; a call of process_batch removes no key and leaves
\* every value it writes or rewrites below target_path.
C35_CopyMapInvariant ==
    LET MapExtensions == {".blend", ".png", ".jpg", ".jpeg", ".tga", ".tiff", ".exr",
                          ".hdr", ".bmp", ".dds", ".mp4", ".avi", ".mov"}
        WellFormed(p) ==
            /\ DOMAIN p.copy_map \subseteq p.copied_paths
            /\ DOMAIN p.copy_map \cap p.missing = {}
            /\ \A k \in DOMAIN p.copy_map : IsPrefix(p.target_path, p.copy_map[k])
            /\ \A x \in p.copied_paths : x \in DOMAIN p.copy_map <=> Suffix(x) \in MapExtensions
    IN /\ WellFormed(pk)
       /\ pk.copy_map # <<>> => pk.target_path # NonePath
       /\ Running(pk) =>
             \A batch_size \in BatchSizes :
                LET q == ProcessBatch(pk, batch_size, FALSE) IN
                /\ DOMAIN pk.copy_map \subseteq DOMAIN q.copy_map
                /\ q.target_path = pk.target_path \/ pk.copy_map = <<>>
                /\ WellFormed(q)

\* a finished run that copied a library, a texture and a sound file and could not
\* read another source: the library and the texture are keys, the sound file and
\* the unreadable source are not
C35_Witness ==
    /\ pk.complete
    /\ \E x \in pk.copied_paths : Suffix(x) = ".png" /\ x \in DOMAIN pk.copy_map
    /\ \E x \in pk.copied_paths : Suffix(x) \notin {".png", ".blend"}
                                    /\ x \notin DOMAIN pk.copy_map
    /\ \E x \in SeqToSet(pk.missing_on_copy) : x \notin DOMAIN pk.copy_map
    /\ \E x \in DOMAIN pk.copy_map : x # pk.top_level_blend_abs /\ Suffix(x) = ".blend"

\* C36: the work-list to_remap built by FIND_DEPENDENCIES holds no document twice,
\* so no pass of host scripts handles a document twice; the copy of the top-level
\* document is listed once also when None is a key of the dependency map.
C36_NoDuplicateWork ==
    LET NoDuplicates(s) == \A i, j \in 1..Len(s) : s[i] = s[j] => i = j IN
    /\ NoDuplicates(pk.to_remap)
    /\ \A op \in {"enable_nla", "remap", "pack_all", "pack_linked"} :
          NoDuplicates(PassLog(pk, op))

\* a finished run on a saved document (no temporary copy) with a local item and a
\* linked library: None is a key of the dependency map and the copy of the
\* top-level document went through the remap pass
C36_Witness ==
    /\ pk.complete
    /\ pk.temp_blend_path = NonePath
    /\ NoneLib \in Keys(pk.blend_deps)
    /\ pk.top_level_target_blend \in SeqToSet(pk.to_remap)
    /\ pk.top_level_target_blend \in SeqToSet(PassLog(pk, "remap"))
    /\ Len(pk.to_remap) >= 3

\* C39: the percentages that one run passes to progress_callback never decrease
\* from one report to the next and lie between 0 and 100.
C39_MonotoneProgress ==
    /\ \A i \in 1..Len(pk.progress) : pk.progress[i] \in 0..100000
    /\ \A i \in 1..(Len(pk.progress) - 1) : pk.progress[i] <= pk.progress[i + 1]

\* a run that truncated a cache directory and has made the call of FIND_DEPENDENCIES
\* after it
C39_Witness ==
    /\ "TRUNCATING_CACHES" \in SeqToSet(pk.phase_log)
    /\ pk.truncate_log # <<>>
    /\ PhaseIndex(pk.phase) > PhaseIndex("FIND_DEPENDENCIES")
    /\ Len(pk.progress) >= 6
    /\ pk.progress[Len(pk.progress)] >= 45000

\* C4: in a packer constructed as the operators construct it, no source path is
\* copied twice during one run.
C4_CopyDedup ==
    OperatorConfigured(pk) => \A i, j \in 1..Len(pk.copy_log) : i # j => pk.copy_log[i] # pk.copy_log[j]

\* a finished run that copied two different files in COPY_ASSETS
C4_Witness ==
    /\ pk.complete
    /\ \E i, j \in 1..Len(pk.assets_to_copy) :
          /\ pk.assets_to_copy[i].asset_usage.abspath # pk.assets_to_copy[j].asset_usage.abspath
          /\ {pk.assets_to_copy[i].asset_usage.abspath,
              pk.assets_to_copy[j].asset_usage.abspath} \subseteq SeqToSet(pk.copy_log)

\* C5: a call that finds cancel_check true raises InterruptedError and changes
\* nothing: phase, cursors, copy_map, copied_paths, missing_on_copy, to_remap, the
\* target tree and the logs of copies, truncations and host scripts stay as they were.
C5_CancelAtBatchStart ==
    \* PackerState: the packer and the world it acts on, without the outcome of the
    \* last call
    [][LET PackerState(p) == [f \in DOMAIN p \ {"outcome"} |-> p[f]]
       IN  pk'.outcome = "InterruptedError" => PackerState(pk') = PackerState(pk)]_vars

\* a call cancelled in the middle of COPY_ASSETS
C5_Witness ==
    /\ pk.outcome = "InterruptedError"
    /\ pk.phase = "COPY_ASSETS"
    /\ pk.assets_copied >= 1
    /\ pk.assets_copied < Len(pk.assets_to_copy)

\* C6: the phases a run enters follow the defined order, each entered at most once,
\* and a phase that is jumped over is one of TRUNCATING_CACHES, ENABLE_NLA, PACK_ALL
\* and PACK_LINKED.
C6_PhaseOrder ==
    /\ pk.phase = pk.phase_log[Len(pk.phase_log)]
    /\ pk.phase_log[1] = "INIT"
    /\ \A i \in 1..(Len(pk.phase_log) - 1) :
          /\ PhaseIndex(pk.phase_log[i]) > 0
          /\ PhaseIndex(pk.phase_log[i]) < PhaseIndex(pk.phase_log[i + 1])
          /\ \A k \in (PhaseIndex(pk.phase_log[i]) + 1)..(PhaseIndex(pk.phase_log[i + 1]) - 1) :
                Phases[k] \in SkippablePhases

\* a finished run that jumped over every phase that may be jumped over
C6_Witness ==
    /\ pk.complete
    /\ SeqToSet(pk.phase_log) = SeqToSet(Phases) \ SkippablePhases

----------------------------------------------------------------------------
(* Specification SpecScripts: one IncrementalPacker driven to the end, never
   cancelled, on a machine where the host scripts exit with 0, exit with another
   code, run past the timeout or cannot be started *)

InitScripts ==
    /\ host \in PackerHosts
    /\ au_library_abspath \in {<<>>, <<TempBlendPath>>}
    /\ g = GIdle
    /\ dfs = DfsIdle
    /\ ops = OpsIdle
    /\ \E workflow \in {"COPY_ONLY", "PACK_AND_SAVE"}, enable_nla \in BOOLEAN,
          scripts \in {"exit_zero", "exit_nonzero", "timeout", "launch_error"} :
       \* the libraries that the copied documents link: none, one that is missing, of
       \* MAX_PACKABLE_SIZE or one byte more, and mixtures
       LET Lib(name, exists, gib, rem) ==
               [path |-> MkdTemp \o <<"lib", name>>, exists |-> exists,
                size |-> [gib |-> gib, rem |-> rem]]
       IN  \E linked \in {<<>>,
                          <<Lib("l1.blend", FALSE, 0, 0)>>,
                          <<Lib("l1.blend", TRUE, 2, 0)>>,
                          <<Lib("l1.blend", TRUE, 2, 1)>>,
                          <<Lib("l1.blend", FALSE, 0, 0), Lib("l2.blend", TRUE, 2, 1),
                            Lib("l3.blend", TRUE, 2, 0)>>,
                          <<Lib("l1.blend", TRUE, 1, GiB - 1), Lib("l2.blend", TRUE, 3, 0)>>} :
          pk = [NewPacker(workflow, enable_nla, FALSE, FALSE,
                          IF au_library_abspath = <<>> THEN NonePath ELSE TempBlendPath,
                          {}, FALSE)
                EXCEPT !.scripts = scripts, !.linked = linked]

\* one call of process_batch by a driver without cancel_check
TickScripts ==
    /\ Running(pk)
    /\ \E batch_size \in BatchSizes : pk' = ProcessBatch(pk, batch_size, FALSE)
    /\ UNCHANGED <<host, au_library_abspath, g, dfs, ops>>

SpecScripts == InitScripts /\ [][TickScripts]_vars

\* C20: when the host script of a document fails in ENABLE_NLA, REMAP_PATHS, PACK_ALL
\* or PACK_LINKED (non-zero exit, timeout, or the host cannot be started),
\* process_batch returns, the cursor of the phase moves to the next document, the
\* scripts of the remaining documents are still run, and the run reaches COMPLETE.
C20_ScriptFailureSoft ==
    LET cursor(p) == CASE p.phase = "ENABLE_NLA" -> p.nla_index
                       [] p.phase = "REMAP_PATHS" -> p.remap_index
                       [] p.phase = "PACK_ALL" -> p.pack_all_index
                       [] OTHER -> p.pack_linked_index
        op_of(phase) == CASE phase = "ENABLE_NLA" -> "enable_nla"
                          [] phase = "REMAP_PATHS" -> "remap"
                          [] phase = "PACK_ALL" -> "pack_all"
                          [] OTHER -> "pack_linked"
        present(p) == SelectSeq(p.to_remap, LAMBDA b : Exists(p.fs, b))
        ran(p, op) == SelectSeq(p.script_log, LAMBDA e : e.op = op)
    IN  /\ pk.outcome \notin {"OSError", "TimeoutExpired"}
        /\ (/\ pk.phase \in {"ENABLE_NLA", "REMAP_PATHS", "PACK_ALL", "PACK_LINKED"}
            /\ Running(pk)
            /\ pk.scripts # "exit_zero") =>
              LET q == ProcessBatch(pk, 1, FALSE)
                  end == RunToEnd(pk, 1, MaxCalls)
              IN /\ q.outcome = "returned"
                 /\ cursor(pk) < Len(pk.to_remap) =>
                       /\ q.phase = pk.phase
                       /\ cursor(q) = cursor(pk) + 1
                       /\ Exists(pk.fs, pk.to_remap[cursor(pk) + 1]) =>
                             /\ q.script_log # pk.script_log
                             /\ q.script_log[Len(q.script_log)].returncode # 0
                 /\ end.complete /\ end.phase = "COMPLETE"
                 /\ Len(ran(end, op_of(pk.phase))) = Len(present(pk))
                 /\ \A i \in 1..Len(present(pk)) :
                       ran(end, op_of(pk.phase))[i].blend = present(pk)[i]

\* a finished run of all four script phases over two documents in which no script
\* could be started
C20_Witness ==
    /\ pk.complete /\ pk.phase = "COMPLETE"
    /\ pk.scripts = "launch_error"
    /\ Len(pk.to_remap) >= 2
    /\ Len(pk.script_log) = 4 * Len(pk.to_remap)
    /\ \A i \in 1..Len(pk.script_log) : pk.script_log[i].returncode = -1

----------------------------------------------------------------------------
(* The loop over bpy.data.libraries of the scripts that remap_library_paths writes,  *)
(* for one library reference.  abs_src is the resolved path of the reference,       *)
(* copy_map the dict of the copies as a sequence of [key, value] in insertion       *)
(* order, exists the set of files that exist.  The result is the file the           *)
(* reference designates afterwards (bpy.path.relpath writes the same file relative  *)
(* to the document), whether the script counted it as remapped and what it reported *)
(* as unresolved.                                                                   *)

\* ops/pack_ops.py: already under target_path, else copy_map, else relative to
\* common_root; the new path is assigned only if it exists
remap_library_paths(abs_src, copy_map, common_root, target_path, exists) ==
    LET keys == {i \in 1..Len(copy_map) : copy_map[i].key = abs_src}
        new_abs == IF IsPrefix(target_path, abs_src) THEN <<abs_src>>
                   ELSE IF keys # {} THEN <<copy_map[CHOOSE i \in keys : TRUE].value>>
                   ELSE IF IsPrefix(common_root, abs_src)
                   THEN <<target_path \o RelativeTo(abs_src, common_root)>>
                   ELSE <<>>                                          \* None
    IN  IF new_abs # <<>>
        THEN IF new_abs[1] \in exists
             THEN [target |-> new_abs[1], remapped |-> TRUE, unresolved |-> <<>>]
             ELSE [target |-> abs_src, remapped |-> FALSE, unresolved |-> <<new_abs[1]>>]
        ELSE [target |-> abs_src, remapped |-> FALSE, unresolved |-> <<abs_src>>]

\* pack.py: copy_map, else already under target_path, else relative to common_root,
\* else the first value of copy_map that abs_src.as_posix() ends with
main_remap_library_paths(abs_src, copy_map, common_root, target_path, exists) ==
    LET keys == {i \in 1..Len(copy_map) : copy_map[i].key = abs_src}
        IsSuffix(v, p) == Len(v) <= Len(p) /\ SubSeq(p, Len(p) - Len(v) + 1, Len(p)) = v
        matches == {i \in 1..Len(copy_map) : IsSuffix(copy_map[i].value, abs_src)}
        first == IF keys # {} THEN <<copy_map[CHOOSE i \in keys : TRUE].value>>
                 ELSE IF IsPrefix(target_path, abs_src) THEN <<abs_src>>
                 ELSE IF IsPrefix(common_root, abs_src)
                 THEN <<target_path \o RelativeTo(abs_src, common_root)>>
                 ELSE <<>>
        new_abs == IF first # <<>> \/ matches = {} THEN first
                   ELSE <<copy_map[CHOOSE i \in matches : \A j \in matches : i <= j].value>>
    IN  IF new_abs = <<>>
        THEN [target |-> abs_src, remapped |-> FALSE, unresolved |-> <<abs_src>>]
        ELSE [target |-> new_abs[1], remapped |-> TRUE, unresolved |-> <<>>]

\* a reference, a copy_map of up to MaxCopies copies with distinct sources, the common
\* root /p, the target root /t and the files that exist under it
InitRemap ==
    /\ LET Copies == {[key |-> <<"p", "lib", "l1.blend">>, value |-> <<"t", "lib", "l1.blend">>],
                      [key |-> <<"p", "lib", "l2.blend">>, value |-> <<"t", "lib", "l2.blend">>],
                      [key |-> <<"q", "l1.blend">>, value |-> <<"t", "q", "l1.blend">>]}
       IN  host \in [abs_src : {<<"p", "lib", "l1.blend">>, <<"q", "l1.blend">>,
                                <<"t", "lib", "l1.blend">>,
                                <<"q", "t", "lib", "l2.blend">>, <<"q", "l3.blend">>},
                     copy_map : {c \in SeqsUpTo(Copies, MaxCopies) :
                                    \A i, j \in 1..Len(c) : c[i].key = c[j].key => i = j},
                     common_root : {<<"p">>},
                     target_path : {<<"t">>},
                     exists : SUBSET {<<"t", "lib", "l1.blend">>, <<"t", "lib", "l2.blend">>}]
    /\ au_library_abspath = <<>>
    /\ g = [called |-> FALSE]
    /\ dfs = DfsIdle
    /\ pk = PkIdle
    /\ ops = OpsIdle

CallRemap ==
    /\ ~g.called
    /\ g' = [called |-> TRUE,
             packer |-> remap_library_paths(host.abs_src, host.copy_map, host.common_root,
                                            host.target_path, host.exists),
             main |-> main_remap_library_paths(host.abs_src, host.copy_map, host.common_root,
                                               host.target_path, host.exists)]
    /\ UNCHANGED <<host, au_library_abspath, dfs, pk, ops>>

SpecRemap == InitRemap /\ [][CallRemap]_vars

\* C28: the script of the packer gives a library reference the copy_map entry of its
\* resolved path; without one, target_path joined with its path relative to
\* common_root when it is under common_root; else a value of copy_map that its path
\* ends with; else it leaves the reference as it is and reports it unresolved.
C28_RemapResolutionChain ==
    g.called =>
        LET src == host.abs_src
            InMap == {i \in 1..Len(host.copy_map) : host.copy_map[i].key = src}
            EndsWith(v) == /\ Len(v) <= Len(src)
                           /\ \A k \in 1..Len(v) : v[k] = src[Len(src) - Len(v) + k]
            Matching == {host.copy_map[i].value : i \in {j \in 1..Len(host.copy_map) :
                                                            EndsWith(host.copy_map[j].value)}}
        IN  IF InMap # {}
            THEN /\ \E i \in InMap : g.packer.target = host.copy_map[i].value
                 /\ g.packer.unresolved = <<>>
            ELSE IF IsPrefix(host.common_root, src)
            THEN /\ g.packer.target = host.target_path \o RelativeTo(src, host.common_root)
                 /\ g.packer.unresolved = <<>>
            ELSE IF Matching # {}
            THEN /\ g.packer.target \in Matching
                 /\ g.packer.unresolved = <<>>
            ELSE /\ g.packer.target = src
                 /\ g.packer.unresolved # <<>>

\* a reference under common_root that is not in copy_map and whose place under
\* target_path holds no file: the script of the packer leaves it and reports it
C28_Witness ==
    /\ g.called
    /\ \A i \in 1..Len(host.copy_map) : host.copy_map[i].key # host.abs_src
    /\ IsPrefix(host.common_root, host.abs_src)
    /\ g.packer.target = host.abs_src
    /\ g.packer.unresolved = <<host.target_path \o RelativeTo(host.abs_src, host.common_root)>>
    /\ g.main.target = host.target_path \o RelativeTo(host.abs_src, host.common_root)

----------------------------------------------------------------------------
(* ops/pack_ops.py and ops/submit_ops.py: the operators *)

MaxOverrides == 2   \* overrides left behind before pack_zip_sync is no longer called
TempBlendPathSync == <<"tmp", "sheepit_submit_sync", "top.blend">>   \* a second mkdtemp
OperatorBatchSize == 20

\* self._phase of each modal operator, in the order of the branches of modal()
ModalPhases(kind) ==
    CASE kind = "pack_zip" ->
            <<"INIT", "SAVING_BLEND", "APPLYING_FRAME_RANGE", "OVERRIDING_FILEPATH", "PACKING",
              "APPLYING_FRAME_RANGE_TO_PACKED", "RESTORING_LIBRARY_ABSPATH",
              "VALIDATING_FILE_SIZE", "CREATING_ZIP", "VALIDATING_ZIP_SIZE", "SAVING_FILE",
              "CLEANUP", "COMPLETE">>
      [] kind = "pack_blend" ->
            <<"INIT", "SAVING_BLEND", "APPLYING_FRAME_RANGE", "OVERRIDING_FILEPATH", "PACKING",
              "APPLYING_FRAME_RANGE_TO_TARGET", "RESTORING_LIBRARY_ABSPATH",
              "VALIDATING_FILE_SIZE", "SAVING_FILE", "CLEANUP", "COMPLETE">>
      [] OTHER ->
            <<"INIT", "SAVING_BLEND", "APPLYING_FRAME_RANGE", "AUTHENTICATING",
              "VALIDATING_FILE_SIZE", "UPLOADING_INIT", "UPLOADING", "OPENING_BROWSER",
              "CLEANUP", "COMPLETE">>

NextModalPhase(kind, phase) == ModalPhases(kind)[IndexOf(ModalPhases(kind), phase) + 1]

NoModal == [kind |-> "none", phase |-> "none", has_original |-> FALSE, original |-> <<>>]
\* create_zip_from_directory(directory, output_zip, progress_callback, cancel_check):
\* a call that also passes exclude_video= is a TypeError
create_zip_from_directory(passes_exclude_video, fails) ==
    IF passes_exclude_video THEN "TypeError" ELSE IF fails THEN "OSError" ELSE "ok"

\* _cleanup of a modal operator: restore the resolver if this run stored one, release
\* the flag, drop the timer, show self._error when cancelled; then self.report(level)
\* and the return value.  cause is what made the operator stop, error is self._error
CleanupResolver(o, au) == IF o.modal.has_original THEN o.modal.original ELSE au
Cleanup(o, au, result, cause, level, error) ==
    [o EXCEPT !.is_submitting = FALSE,
              !.modal = NoModal,
              !.last_term = [op |-> o.modal.kind, result |-> result,
                             overrode |-> o.modal.has_original,
                             before |-> o.modal.original,
                             after |-> CleanupResolver(o, au),
                             cause |-> cause, level |-> level, error |-> error,
                             status_message |-> IF result = "CANCELLED" /\ error # ""
                                                THEN error ELSE ""]]

\* invoke of a modal operator
Invoke(kind) ==
    /\ ops.modal.kind = "none" \/ ops.is_submitting
    /\ \E output_dir \in BOOLEAN :
          IF ops.is_submitting
          THEN ops' = [ops EXCEPT !.report = "already in progress"]
          ELSE IF ~output_dir /\ kind # "submit_current"
          THEN ops' = [ops EXCEPT !.report = "no output path"]
          ELSE ops' = [ops EXCEPT !.is_submitting = TRUE,
                                  !.report = "none",
                                  !.modal = [NoModal EXCEPT !.kind = kind, !.phase = "INIT"]]
    /\ UNCHANGED <<host, au_library_abspath, g, dfs, pk>>

\* modal(): event.type == 'ESC'
ModalEsc ==
    /\ ops.sync_pc = "idle"
    /\ ops.modal.kind # "none"
    /\ ops' = Cleanup(ops, au_library_abspath, "CANCELLED", "esc", "INFO", "")
    /\ au_library_abspath' = CleanupResolver(ops, au_library_abspath)
    /\ pk' = PkIdle
    /\ UNCHANGED <<host, g, dfs>>

\* an except branch or a failed check of modal(): _cleanup(cancelled=True), report,
\* return {'CANCELLED'}
Cancelled(cause, level, error) ==
    /\ ops' = Cleanup(ops, au_library_abspath, "CANCELLED", cause, level, error)
    /\ au_library_abspath' = CleanupResolver(ops, au_library_abspath)
    /\ pk' = PkIdle

Advance ==
    /\ ops' = [ops EXCEPT !.modal.phase = NextModalPhase(ops.modal.kind, ops.modal.phase)]
    /\ UNCHANGED <<au_library_abspath, pk>>

\* a timer event reaches modal() of the registered operator between two calls of
\* the Python interpreter, never inside execute of pack_zip_sync
TimerEvent ==
    /\ ops.sync_pc = "idle"
    /\ ops.modal.kind # "none"
    /\ UNCHANGED <<host, g, dfs>>

\* modal(): event.type == 'TIMER', a phase that does its work and moves on, or fails
\* and cleans up
ModalTimerPlain ==
    /\ TimerEvent
    /\ ops.modal.phase \in {"INIT", "SAVING_BLEND", "APPLYING_FRAME_RANGE", "AUTHENTICATING",
                            "VALIDATING_FILE_SIZE", "UPLOADING_INIT", "UPLOADING",
                            "OPENING_BROWSER", "VALIDATING_ZIP_SIZE", "SAVING_FILE", "CLEANUP",
                            "APPLYING_FRAME_RANGE_TO_TARGET"}
    \* phases whose work can fail: saving, the blender subprocess, the size limits, the
    \* move of the result, the login and the upload
    /\ \E fails \in IF ops.modal.phase \in
                        {"SAVING_BLEND", "APPLYING_FRAME_RANGE_TO_PACKED",
                         "APPLYING_FRAME_RANGE_TO_TARGET", "VALIDATING_FILE_SIZE",
                         "VALIDATING_ZIP_SIZE", "SAVING_FILE", "AUTHENTICATING", "UPLOADING"}
                     THEN BOOLEAN ELSE {FALSE} :
          IF fails THEN Cancelled("failure", "ERROR", "failed") ELSE Advance

\* OVERRIDING_FILEPATH: store au.library_abspath, install the override, make the packer
ModalTimerOverridingFilepath ==
    /\ TimerEvent
    /\ ops.modal.phase = "OVERRIDING_FILEPATH"
    /\ au_library_abspath' = Append(au_library_abspath, TempBlendPath)
    /\ ops' = [ops EXCEPT !.modal.has_original = TRUE,
                          !.modal.original = au_library_abspath,
                          !.modal.phase = "PACKING",
                          !.nested_override = @ \/ au_library_abspath # <<>>]
    /\ pk' = NewPacker(IF ops.modal.kind = "pack_zip" THEN "COPY_ONLY" ELSE "PACK_AND_SAVE",
                       FALSE, TRUE, TRUE, TempBlendPath, {}, FALSE)

\* PACKING_*: one process_batch(batch_size=20); cancel_check is "not is_submitting"
ModalTimerPacking ==
    /\ TimerEvent
    /\ ops.modal.phase = "PACKING"
    /\ LET q == ProcessBatch(pk, OperatorBatchSize, ~ops.is_submitting) IN
       IF q.outcome = "InterruptedError" THEN Cancelled("cancellation", "INFO", "")
       ELSE IF q.outcome \in FailureOutcomes
       THEN Cancelled("failure", "ERROR", "Packing failed")
       ELSE IF ~q.complete THEN pk' = q /\ UNCHANGED <<ops, au_library_abspath>>
       ELSE IF ops.modal.kind = "pack_blend"
               /\ (q.file_path = NonePath \/ ~Exists(q.fs, q.file_path))
            THEN Cancelled("failure", "ERROR", "Could not find target blend file")
       ELSE /\ pk' = q
            /\ ops' = [ops EXCEPT !.modal.phase =
                                      NextModalPhase(ops.modal.kind, ops.modal.phase)]
            /\ UNCHANGED au_library_abspath

\* APPLYING_FRAME_RANGE_TO_PACKED: InterruptedError raised before the first document
\* when the flag was cleared and a document is there, or a failure of the subprocess;
\* both reach the outer "except Exception" of modal()
ModalTimerApplyToPacked ==
    /\ TimerEvent
    /\ ops.modal.phase = "APPLYING_FRAME_RANGE_TO_PACKED"
    /\ \E fails \in BOOLEAN :
          IF ~ops.is_submitting /\ FirstBlend(pk.fs) # NonePath
          THEN Cancelled("cancellation", "ERROR", "Packing failed")
          ELSE IF fails THEN Cancelled("failure", "ERROR", "Packing failed")
          ELSE Advance

\* RESTORING_LIBRARY_ABSPATH
ModalTimerRestoring ==
    /\ TimerEvent
    /\ ops.modal.phase = "RESTORING_LIBRARY_ABSPATH"
    /\ au_library_abspath' = CleanupResolver(ops, au_library_abspath)
    /\ ops' = [ops EXCEPT !.modal.phase = NextModalPhase(ops.modal.kind, ops.modal.phase)]
    /\ UNCHANGED pk

\* CREATING_ZIP of pack_zip: the call passes exclude_video=
ModalTimerCreatingZip ==
    /\ TimerEvent
    /\ ops.modal.phase = "CREATING_ZIP"
    /\ \E fails \in BOOLEAN :
          \* self._error = f"ZIP creation failed: {str(e)}"
          LET e == create_zip_from_directory(TRUE, fails) IN
          IF e = "TypeError" THEN Cancelled("failure", "ERROR", "ZIP creation failed: TypeError")
          ELSE IF e # "ok" THEN Cancelled("failure", "ERROR", "ZIP creation failed: OSError")
          ELSE Advance

\* COMPLETE: _cleanup(cancelled=False), FINISHED
ModalTimerComplete ==
    /\ TimerEvent
    /\ ops.modal.phase = "COMPLETE"
    /\ ops' = Cleanup(ops, au_library_abspath, "FINISHED", "none", "INFO", "")
    /\ au_library_abspath' = CleanupResolver(ops, au_library_abspath)
    /\ pk' = PkIdle

\* SHEEPIT_OT_pack_zip_sync.execute runs in one call; sync_pc is its position.
\* Up to the creation of the packer:
SyncExecute ==
    /\ ops.sync_pc = "idle"
    /\ Len(au_library_abspath) < MaxOverrides
    /\ \E output_dir \in BOOLEAN, save_fails \in BOOLEAN :
          IF ~output_dir
          THEN /\ ops' = [ops EXCEPT !.report = "no output path"]
               /\ UNCHANGED au_library_abspath
          ELSE IF save_fails
          THEN /\ ops' = [ops EXCEPT !.is_submitting = FALSE,
                                     !.report = "none",
                                     !.started_while_submitting = @ \/ ops.is_submitting,
                                     !.last_term = [op |-> "pack_zip_sync",
                                                    result |-> "CANCELLED",
                                                    overrode |-> FALSE,
                                                    before |-> au_library_abspath,
                                                    after |-> au_library_abspath,
                                                    cause |-> "none", level |-> "none", error |-> "",
                                                    status_message |-> ""]]
               /\ UNCHANGED au_library_abspath
          ELSE /\ au_library_abspath' = Append(au_library_abspath, TempBlendPathSync)
               /\ ops' = [ops EXCEPT !.is_submitting = TRUE,
                                     !.report = "none",
                                     !.started_while_submitting = @ \/ ops.is_submitting,
                                     !.nested_override = @ \/ au_library_abspath # <<>>,
                                     !.sync_orig = au_library_abspath,
                                     !.sync_packer = NewPacker("COPY_ONLY", FALSE, TRUE, TRUE,
                                                               TempBlendPathSync, {}, FALSE),
                                     !.sync_pc = "packing"]
    /\ UNCHANGED <<host, g, dfs, pk>>

\* while True: process_batch(batch_size=20), and the except branch around it
SyncPackingLoop ==
    /\ ops.sync_pc = "packing"
    /\ LET q == RunToEnd(ops.sync_packer, OperatorBatchSize, MaxCalls)
           driven == ops.modal.kind # "none" /\ pk # PkIdle /\ Running(pk)
       IN IF q.outcome \in FailureOutcomes
          THEN /\ au_library_abspath' = ops.sync_orig
               /\ ops' = [ops EXCEPT !.is_submitting = FALSE,
                                     !.two_packers = @ \/ driven,
                                     !.sync_pc = "idle",
                                     !.sync_packer = PkIdle,
                                     !.last_term = [op |-> "pack_zip_sync",
                                                    result |-> "CANCELLED",
                                                    overrode |-> TRUE,
                                                    before |-> ops.sync_orig,
                                                    after |-> ops.sync_orig,
                                                    cause |-> "none", level |-> "none", error |-> "",
                                                    status_message |-> ""]]
          ELSE /\ ops' = [ops EXCEPT !.two_packers = @ \/ driven,
                                     !.sync_packer = q,
                                     !.sync_pc = "after_loop"]
               /\ UNCHANGED au_library_abspath
    /\ UNCHANGED <<host, g, dfs, pk>>

\* the rest of execute: the frame range of every packed document, the restore, the
\* archive, the move of the archive
SyncAfterLoop ==
    /\ ops.sync_pc = "after_loop"
    /\ \E apply_raises \in IF FirstBlend(ops.sync_packer.fs) # NonePath THEN BOOLEAN ELSE {FALSE},
          zip_fails \in BOOLEAN :
          LET done(result, resolver, flag) ==
                  /\ au_library_abspath' = resolver
                  /\ ops' = [ops EXCEPT !.is_submitting = flag,
                                        !.sync_pc = "idle",
                                        !.sync_packer = PkIdle,
                                        !.last_term = [op |-> "pack_zip_sync",
                                                       result |-> result,
                                                       overrode |-> TRUE,
                                                       before |-> ops.sync_orig,
                                                       after |-> resolver,
                                                       cause |-> "none", level |-> "none", error |-> "",
                                                       status_message |-> ""]]
          IN IF apply_raises THEN done("raised", au_library_abspath, ops.is_submitting)
             ELSE IF create_zip_from_directory(TRUE, zip_fails) # "ok"
             THEN done("raised", ops.sync_orig, ops.is_submitting)
             ELSE done("FINISHED", ops.sync_orig, FALSE)
    /\ UNCHANGED <<host, g, dfs, pk>>

InitOps ==
    /\ host \in [user_map : {<<>>, <<[lib |-> "L1", users |-> <<NoneLib>>]>>,
                              <<[lib |-> NoneLib, users |-> <<"L1">>]>>},
                  file_path_map : {<<>>}, datablocks : {<<TexFromTop>>},
                  packed_libs : {{}}]
    /\ au_library_abspath = <<>>
    /\ g = GIdle
    /\ dfs = DfsIdle
    /\ pk = PkIdle
    /\ ops = [is_submitting |-> FALSE, modal |-> NoModal, report |-> "none",
              sync_pc |-> "idle", sync_orig |-> <<>>, sync_packer |-> PkIdle,
              last_term |-> [op |-> "none", result |-> "none", overrode |-> FALSE,
                             before |-> <<>>, after |-> <<>>, cause |-> "none",
                             level |-> "none", error |-> "", status_message |-> ""],
              started_while_submitting |-> FALSE, nested_override |-> FALSE,
              two_packers |-> FALSE]

NextOps ==
    \/ ops.sync_pc = "idle" /\ Invoke("pack_zip")
    \/ ops.sync_pc = "idle" /\ Invoke("pack_blend")
    \/ ops.sync_pc = "idle" /\ Invoke("submit_current")
    \/ ModalEsc
    \/ ModalTimerPlain \/ ModalTimerOverridingFilepath \/ ModalTimerPacking
    \/ ModalTimerApplyToPacked \/ ModalTimerRestoring \/ ModalTimerCreatingZip
    \/ ModalTimerComplete
    \/ SyncExecute \/ SyncPackingLoop \/ SyncAfterLoop

SpecOps == InitOps /\ [][NextOps]_vars

----------------------------------------------------------------------------
(* Claims about the operators *)

\* C7: an operator (pack_zip, pack_blend, pack_zip_sync) that replaced
\* au.library_abspath by its override and then terminated, however it terminated,
\* left au.library_abspath bound to the function that was in place before its override.
C7_OverrideRestored ==
    ops.last_term.overrode => ops.last_term.after = ops.last_term.before

\* pack_zip_sync terminated by an exception with its override still bound
C7_Witness ==
    /\ ops.last_term.op = "pack_zip_sync"
    /\ ops.last_term.overrode
    /\ ops.last_term.result = "raised"
    /\ au_library_abspath = Append(ops.last_term.before, TempBlendPathSync)

\* C8: no operator starts a run while is_submitting is true, so no packer is driven
\* while another run's packer is in the middle of its run, and au.library_abspath is
\* never overridden while an override is in place.
C8_OneRunAtATime ==
    /\ ~ops.started_while_submitting
    /\ ~ops.two_packers
    /\ ~ops.nested_override

\* pack_zip_sync ran inside a modal run: two packers, one override on top of the other
C8_Witness ==
    /\ ops.modal.kind \in {"pack_zip", "pack_blend"}
    /\ ops.modal.phase = "PACKING"
    /\ ops.started_while_submitting
    /\ ops.two_packers
    /\ ops.nested_override


\* C21: a pack operator (pack_zip, pack_blend) that stopped because it received ESC
\* or because a phase that polls for cancellation observed it returned CANCELLED
\* with an informational report, left its error field empty and left
\* submit_status_message empty.
C21_CancellationIsNotFailure ==
    (ops.last_term.op \in {"pack_zip", "pack_blend"}
        /\ ops.last_term.cause \in {"esc", "cancellation"}) =>
        /\ ops.last_term.result = "CANCELLED"
        /\ ops.last_term.level = "INFO"
        /\ ops.last_term.error = ""
        /\ ops.last_term.status_message = ""

\* pack_zip stopped on a cancellation observed outside the packer
C21_Witness ==
    /\ ops.last_term.op = "pack_zip"
    /\ ops.last_term.cause = "cancellation"
    /\ ops.last_term.error = "Packing failed"

\* C37: whenever no operator is running (no modal operator is registered and
\* execute of pack_zip_sync is not on the stack), is_submitting is false: every
\* operator that set the flag released it when it terminated, however it
\* terminated.
C37_FlagReleased ==
    (ops.modal.kind = "none" /\ ops.sync_pc = "idle") => ~ops.is_submitting

\* pack_zip_sync, run on its own, left execute by an exception after the packing
\* loop; the flag is still set and the next operator was refused
C37_Witness ==
    /\ ops.modal.kind = "none"
    /\ ops.sync_pc = "idle"
    /\ ops.last_term.op = "pack_zip_sync"
    /\ ops.last_term.result = "raised"
    /\ ops.is_submitting
    /\ ops.report = "already in progress"

\* C38: a run of pack_zip that no ESC, no cancellation and no failure of the file
\* system or of a host script ended did not end CANCELLED: a run of pack_zip that
\* ended CANCELLED was ended by ESC, by cancellation, or by a failure of saving,
\* packing, the size checks, the archive writer or the move of the result.
C38_PackZipNeverCancelled ==
    (ops.last_term.op = "pack_zip" /\ ops.last_term.result = "CANCELLED") =>
        \/ ops.last_term.cause \in {"esc", "cancellation"}
        \/ /\ ops.last_term.cause = "failure"
           /\ ops.last_term.error # "ZIP creation failed: TypeError"

\* a run of pack_zip that went through every phase up to CREATING_ZIP without ESC,
\* cancellation or failure and ended CANCELLED there
C38_Witness ==
    /\ ops.last_term.op = "pack_zip"
    /\ ops.last_term.result = "CANCELLED"
    /\ ops.last_term.cause = "failure"
    /\ ops.last_term.error = "ZIP creation failed: TypeError"
    /\ ops.last_term.overrode
    /\ ~ops.is_submitting

====
